---- MODULE Spec2Model ----
(***************************************************************************)
(* HandyGCCS: the chord resolution engine, the action queue and the event  *)
(* emitter, modelled from src/src/handycon.                                *)
(*                                                                         *)
(* A LogicalAction is a record [str, pairs]: a list of (type, code) pairs  *)
(* (str = "") or a one-element list holding a side-effect name (pairs =    *)
(* <<>>).  Python's None is the record None.                               *)
(***************************************************************************)
EXTENDS Integers, Sequences, FiniteSets, TLC

VARIABLES
    system_type,        \* the hardware profile whose process_event runs
    button_map,         \* slot number -> LogicalAction
    event_queue,        \* EventEmitter.event_queue
    last_button,        \* EventEmitter.last_button
    shutdown,           \* HandheldController.shutdown
    controller_device,  \* TRUE while the controller handle is bound
    task,               \* keyboard task k -> its position and locals
    seed,               \* the raw event read last, and the keyboard it came from
    out,                \* what the last step of a keyboard task did, in order
    asserted,           \* actions pressed on ui_device and not yet released
    scheduled,          \* the tasks paused in emit_events, in the order they wake
    running,            \* HandheldController.running
    CAPTURE_CONTROLLER, \* HandheldController.CAPTURE_CONTROLLER
    CAPTURE_KEYBOARD,   \* HandheldController.CAPTURE_KEYBOARD
    CAPTURE_POWER,      \* HandheldController.CAPTURE_POWER
    adapter,            \* adapter name -> its handle, event name, path, node, task
    exited,             \* "no", or how exit() ended: "done", "raised"
    startup,            \* how far HandheldController.__init__ has come
    opengamepadui,      \* TRUE when an opengamepadui process is running
    system_id,          \* /sys/devices/virtual/dmi/id/product_name
    ff_effect_id_set,   \* the local of capture_ff_events
    ff,                 \* capture_ff_events, its last request, the controller's effects
    perf                \* mode_generator, toggle_performance and what it has run

\* The chord engine's variables, and those of device management.
corevars == <<system_type, button_map, event_queue, last_button, shutdown,
              controller_device, task, seed, out, asserted, scheduled>>
devvars == <<running, CAPTURE_CONTROLLER, CAPTURE_KEYBOARD, CAPTURE_POWER,
             adapter, exited>>
\* What the daemon is started in, and the rest of its state.
ffvars == <<ff_effect_id_set, ff>>
auxvars == <<startup, opengamepadui, system_id, ffvars, perf>>
vars == <<corevars, devvars, auxvars>>

-----------------------------------------------------------------------------
(* evdev codes used by the sources.                                        *)

KEY_VOLUMEDOWN == 114
KEY_VOLUMEUP == 115

-----------------------------------------------------------------------------
(* constants.py: the LogicalActions and their classes.                     *)

Pairs(ps) == [str |-> "", pairs |-> ps]
Named(s) == [str |-> s, pairs |-> <<>>]
None == [str |-> "None", pairs |-> <<>>]

EVENT_ALT_TAB == Pairs(<< <<1, 56>>, <<1, 15>> >>)
EVENT_ESC == Pairs(<< <<4, 4>>, <<1, 1>> >>)
EVENT_KILL == Pairs(<< <<1, 125>>, <<1, 29>>, <<1, 1>> >>)
EVENT_MODE == Pairs(<< <<1, 316>> >>)
EVENT_OSK == Pairs(<< <<1, 316>>, <<1, 307>> >>)
EVENT_QAM == Pairs(<< <<1, 316>>, <<1, 304>> >>)
EVENT_SCR == Pairs(<< <<1, 316>>, <<1, 311>> >>)
EVENT_OPEN_CHIMERA == Named("Open Chimera")
EVENT_TOGGLE_GYRO == Named("Toggle Gyro")
EVENT_TOGGLE_MOUSE == Named("Toggle Mouse Mode")
EVENT_TOGGLE_PERFORMANCE == Named("Toggle Performance")
EVENT_BTN_A == Pairs(<< <<1, 304>> >>)
EVENT_BTN_X == Pairs(<< <<1, 307>> >>)

INSTANT_EVENTS ==
    {EVENT_MODE, EVENT_OPEN_CHIMERA, EVENT_TOGGLE_GYRO, EVENT_TOGGLE_MOUSE,
     EVENT_TOGGLE_PERFORMANCE}

QUEUED_EVENTS ==
    {EVENT_ALT_TAB, EVENT_ESC, EVENT_KILL, EVENT_OSK, EVENT_QAM, EVENT_SCR}

EVENT_MAP ==
    [n \in {"ALT_TAB", "ESC", "KILL", "MODE", "OPEN_CHIMERA", "OSK", "QAM",
            "SCR", "TOGGLE_GYRO", "TOGGLE_MOUSE", "TOGGLE_PERFORMANCE"} |->
        CASE n = "ALT_TAB" -> EVENT_ALT_TAB
          [] n = "ESC" -> EVENT_ESC
          [] n = "KILL" -> EVENT_KILL
          [] n = "MODE" -> EVENT_MODE
          [] n = "OPEN_CHIMERA" -> EVENT_OPEN_CHIMERA
          [] n = "OSK" -> EVENT_OSK
          [] n = "QAM" -> EVENT_QAM
          [] n = "SCR" -> EVENT_SCR
          [] n = "TOGGLE_GYRO" -> EVENT_TOGGLE_GYRO
          [] n = "TOGGLE_MOUSE" -> EVENT_TOGGLE_MOUSE
          [] n = "TOGGLE_PERFORMANCE" -> EVENT_TOGGLE_PERFORMANCE]

-----------------------------------------------------------------------------
(* Python list helpers.                                                    *)

Truthy(a) == a /= None /\ (a.str /= "" \/ a.pairs /= <<>>)
IsStr(a) == a.str /= ""
InList(x, s) == \E i \in 1..Len(s) : s[i] = x
Reverse(s) == [i \in 1..Len(s) |-> s[Len(s) + 1 - i]]

\* list.remove(x): the first occurrence is dropped.
FirstIndex(x, s) == CHOOSE i \in 1..Len(s) : s[i] = x /\ \A j \in 1..(i - 1) : s[j] /= x
Remove(x, s) ==
    LET i == FirstIndex(x, s)
    IN  [j \in 1..(Len(s) - 1) |-> IF j < i THEN s[j] ELSE s[j + 1]]

\* What one event's processing does, in order.
Write(type, code, value) == [kind |-> "write", str |-> "", type |-> type, code |-> code, value |-> value]
Sleep == [kind |-> "sleep", str |-> "", type |-> 0, code |-> 0, value |-> 0]
Call(name) == [kind |-> "call", str |-> name, type |-> 0, code |-> 0, value |-> 0]
Rumble == [kind |-> "rumble", str |-> "", type |-> 0, code |-> 0, value |-> 0]
Log(name) == [kind |-> "log", str |-> name, type |-> 0, code |-> 0, value |-> 0]

-----------------------------------------------------------------------------
(* EventEmitter.emit_now, emit_events, emit_event.                         *)

\* The side-effect names emit_now dispatches to a handler.
HANDLERS ==
    {"Increase screen brightness", "Decrease screen brightness",
     "Increase led brightness", "Decrease led brightness", "Switch led mode",
     "Open Keyboard", "Open Chimera", "Toggle Performance"}

\* EventList building the release in the listed order too.
EventList_ListedOrder(event_list, value) ==
    [i \in 1..Len(event_list.pairs) |->
        Write(event_list.pairs[i][1], event_list.pairs[i][2], value)]

\* emit_now's event list: the pairs in listed order for a press, reversed
\* for a release, each carrying value.
EventList(event_list, value) ==
    LET ps == IF value = 0 THEN Reverse(event_list.pairs) ELSE event_list.pairs
    IN  [i \in 1..Len(ps) |-> Write(ps[i][1], ps[i][2], value)]

\* emit_events pausing after the last event as well.
emit_events_PauseAfterEach(events) ==
    [i \in 1..(2 * Len(events)) |-> IF i % 2 = 1 THEN events[(i + 1) \div 2] ELSE Sleep]

\* emit_events: every event is written, and a pause follows every event
\* but the last one.
RECURSIVE emit_events(_)
emit_events(events) ==
    IF events = <<>> THEN <<>>
    ELSE IF Len(events) = 1 THEN <<events[1]>>
    ELSE <<events[1], Sleep>> \o emit_events(Tail(events))

\* emit_now writing a SYN event for a request without pairs.
emit_now_EmptySyn(event_list, value) ==
    IF ~Truthy(event_list) THEN <<Write(0, 0, value)>>
    ELSE IF IsStr(event_list) THEN
        IF value = 0 THEN <<>>
        ELSE IF event_list.str = "Toggle Performance"
            THEN <<Call(event_list.str), Sleep>>
        ELSE IF event_list.str \in HANDLERS THEN <<Call(event_list.str)>>
        ELSE <<Log(event_list.str)>>
    ELSE LET events == EventList(event_list, value)
         IN  IF Len(events) > 1 THEN emit_events(events) ELSE events

\* emit_now taking every name for the name of a handler.
emit_now_AnyName(event_list, value) ==
    IF ~Truthy(event_list) THEN <<Log("malformed")>>
    ELSE IF IsStr(event_list) THEN
        IF value = 0 THEN <<>> ELSE <<Call(event_list.str)>>
    ELSE LET events == EventList(event_list, value)
         IN  IF Len(events) > 1 THEN emit_events(events) ELSE events

\* Everything emit_now(seed_event, event_list, value) does, in order.
emit_now(event_list, value) ==
    IF ~Truthy(event_list) THEN <<Log("malformed")>>
    ELSE IF IsStr(event_list) THEN
        IF value = 0 THEN <<>>
        ELSE IF event_list.str = "Toggle Performance"
            THEN <<Call(event_list.str), Sleep>>
        ELSE IF event_list.str \in HANDLERS THEN <<Call(event_list.str)>>
        ELSE <<Log(event_list.str)>>
    ELSE LET events == EventList(event_list, value)
         IN  IF Len(events) > 1 THEN emit_events(events) ELSE events

\* The items up to and including the first pause, and the items after it.
UpToSleep(items) ==
    IF \E i \in 1..Len(items) : items[i] = Sleep
    THEN SubSeq(items, 1, CHOOSE i \in 1..Len(items) :
                    items[i] = Sleep /\ \A j \in 1..(i - 1) : items[j] /= Sleep)
    ELSE items
AfterSleep(items) == SubSeq(items, Len(UpToSleep(items)) + 1, Len(items))
HasWrite(items) == \E i \in 1..Len(items) : items[i].kind = "write"

-----------------------------------------------------------------------------
(* The state one event's processing works on: the shared fields, the log   *)
(* of the event, and in err the exception that was raised, if any.         *)

Raised(m) == m.err /= ""

Machine(o) ==
    [q |-> event_queue, lb |-> last_button, sd |-> shutdown,
     cd |-> controller_device, hot |-> asserted,
     out |-> o, err |-> "", tb |-> None,
     act |-> None, val |-> 0, clear |-> FALSE, susp |-> FALSE]

\* ui_device after a whole emit_now: a press asserts the action with its
\* first event, a release drops it with its last event.
Emitted(m, event_list, value) ==
    LET items == emit_now(event_list, value)
        hot == IF ~HasWrite(items) THEN m.hot
               ELSE IF value = 0 THEN m.hot \ {event_list}
               ELSE m.hot \cup {event_list}
    IN  [m EXCEPT !.out = m.out \o items, !.hot = hot]

\* emit_event(seed_event): the raw event goes to ui_device as it is.
emit_event(m, ev) == [m EXCEPT !.out = Append(m.out, Write(ev.type, ev.code, ev.value))]

-----------------------------------------------------------------------------
(* EventEmitter.handle_key_down and handle_key_up.                         *)

\* handle_key_down registering the action and emitting nothing.
handle_key_down_QueueOnly(m, queued_event) ==
    IF Raised(m) THEN m ELSE [m EXCEPT !.q = Append(m.q, queued_event)]

handle_key_down(m, queued_event) ==
    IF Raised(m) THEN m
    ELSE LET m1 == [m EXCEPT !.q = Append(m.q, queued_event)]
         IN  IF queued_event \in INSTANT_EVENTS
             THEN Emitted(m1, queued_event, 1)
             ELSE m1

\* list.remove raises ValueError when the element is absent.
QueueRemove(m, x) ==
    IF InList(x, m.q) THEN [m EXCEPT !.q = Remove(x, m.q)]
    ELSE [m EXCEPT !.err = "ValueError"]

handle_key_up(m, queued_event) ==
    IF Raised(m) THEN m
    ELSE IF queued_event \in INSTANT_EVENTS THEN
        LET m1 == QueueRemove(m, queued_event)
        IN  IF Raised(m1) THEN m1 ELSE Emitted(m1, queued_event, 0)
    ELSE IF queued_event \in QUEUED_EVENTS THEN
        IF ~Truthy(m.lb) THEN
            LET m1 == QueueRemove(m, queued_event)
            IN  IF Raised(m1) THEN m1
                ELSE Emitted([m1 EXCEPT !.lb = queued_event], queued_event, 1)
        ELSE [Emitted(m, m.lb, 0) EXCEPT !.lb = None]
    ELSE m

-----------------------------------------------------------------------------
(* The handhelds whose process_event calls handle_key_down/handle_key_up:  *)
(* aya_gen1, aya_gen2, aya_gen7, ayn_gen3.                                 *)

\* Automatically pass default keycodes we dont intend to replace.
PassVolume(m, ev) ==
    IF ev.code \in {KEY_VOLUMEDOWN, KEY_VOLUMEUP} THEN emit_event(m, ev) ELSE m

\* KeyRule calling handle_key_down without looking for the action in
\* event_queue and whatever the value of the event.
KeyRule_NoMembershipTest(m, ev, down, ups, held, button) ==
    IF Raised(m) THEN m
    ELSE IF down /\ ev.value \in {1, 2}
        THEN handle_key_down(m, button)
    ELSE IF ev.active_keys = <<>> /\ ev.code \in ups /\ ev.value = 0
            /\ InList(held, m.q)
        THEN handle_key_up(m, button)
    ELSE m

\* One "if ... handle_key_down / elif ... handle_key_up" statement.  down is
\* the if condition without the queue test, ups the release codes, held the
\* action the elif looks for in event_queue, button the action handled.
KeyRule(m, ev, down, ups, held, button) ==
    IF Raised(m) THEN m
    ELSE IF down /\ ev.value = 1 /\ ~InList(button, m.q)
        THEN handle_key_down(m, button)
    ELSE IF ev.active_keys = <<>> /\ ev.code \in ups /\ ev.value = 0
            /\ InList(held, m.q)
        THEN handle_key_up(m, button)
    ELSE m

\* The last statement of a profile: the same with the L_META elif.
KeyRuleMeta(m, ev, down, ups, held, button) ==
    IF Raised(m) THEN m
    ELSE IF down /\ ev.value = 1 /\ ~InList(button, m.q)
        THEN handle_key_down(m, button)
    ELSE IF ev.active_keys = <<>> /\ ev.code \in ups /\ ev.value = 0
            /\ InList(held, m.q)
        THEN handle_key_up(m, button)
    ELSE IF ev.active_keys = <<>> /\ ev.code = 125 /\ ev.value = 0
            /\ m.q = <<>> /\ m.sd
        THEN [m EXCEPT !.sd = FALSE]
    ELSE m

\* A profile without the handle_key_up of last_button at its end.
TrailingKeyUp_Left(m) == m

\* if handycon.last_button: await handycon.handle_key_up(seed_event, last_button)
TrailingKeyUp(m) ==
    IF Raised(m) THEN m
    ELSE IF Truthy(m.lb) THEN handle_key_up(m, m.lb)
    ELSE m

aya_gen1_process_event(m0, ev) ==
    LET b == button_map
        m1 == PassVolume(m0, ev)
        m2 == KeyRule(m1, ev, ev.active_keys = <<125>> /\ ~m1.sd,
                      {125}, b[6], b[1])
        m3 == KeyRule(m2, ev, ev.active_keys = <<97, 100, 111>>,
                      {97, 100, 111}, b[2], b[2])
        m4 == KeyRule(m3, ev, ev.active_keys = <<1>> /\ ev.code = 1,
                      {1}, b[3], b[3])
        m5 == KeyRuleMeta(m4, ev, ev.active_keys = <<24, 97, 125>>,
                          {24, 97, 125}, b[4], b[4])
    IN  TrailingKeyUp(m5)

aya_gen2_process_event(m0, ev) ==
    LET b == button_map
        m1 == PassVolume(m0, ev)
        m2 == KeyRule(m1, ev, ev.active_keys \in {<<40, 133>>, <<32, 125>>},
                      {32, 40, 125, 133}, b[2], b[2])
        m3 == KeyRuleMeta(m2, ev,
                          ev.active_keys \in {<<96, 105, 133>>, <<88, 97, 125>>},
                          {88, 96, 97, 105, 125, 133}, b[5], b[5])
    IN  TrailingKeyUp(m3)

aya_gen7_process_event(m0, ev) ==
    LET b == button_map
        m1 == PassVolume(m0, ev)
        m2 == KeyRule(m1, ev, ev.active_keys = <<29, 125, 185>>,
                      {29, 125, 185}, b[1], b[1])
        m3 == KeyRule(m2, ev, ev.active_keys = <<32, 125>>,
                      {32, 125}, b[2], b[2])
        m4 == KeyRule(m3, ev, ev.active_keys = <<29, 125, 186>>,
                      {29, 125, 186}, b[4], b[4])
        m5 == KeyRuleMeta(m4, ev, ev.active_keys = <<29, 125, 187>>,
                          {29, 125, 187}, b[5], b[5])
    IN  TrailingKeyUp(m5)

ayn_gen3_process_event(m0, ev) ==
    LET b == button_map
        m1 == PassVolume(m0, ev)
        m2 == KeyRule(m1, ev, ev.active_keys = <<111>>, {111}, b[1], b[1])
        m3 == KeyRule(m2, ev, ev.active_keys = <<20, 29, 42, 56>>,
                      {20, 29, 42, 56}, b[2], b[2])
    IN  TrailingKeyUp(m3)

-----------------------------------------------------------------------------
(* The handhelds that resolve this_button: oxp_gen5.process_event and      *)
(* EventEmitter.process_event (the ROG Ally chords).                       *)

\* MissedKeys taking the action registered last.
MissedKeys_Newest(m, ev) ==
    IF ev.active_keys = <<>> /\ m.q /= <<>> THEN [m EXCEPT !.tb = m.q[Len(m.q)]] ELSE m

\* MissedKeys taking event_queue[0] whatever keys are held.
MissedKeys_AnyKeys(m, ev) ==
    IF m.q /= <<>> THEN [m EXCEPT !.tb = m.q[1]] ELSE m

\* Handle missed keys.
MissedKeys(m, ev) ==
    IF ev.active_keys = <<>> /\ m.q /= <<>> THEN [m EXCEPT !.tb = m.q[1]] ELSE m

\* QueueRule registering the action without looking for it in event_queue.
QueueRule_NoMembershipTest(m, ev, down, ups, button) ==
    IF Raised(m) THEN m
    ELSE IF down /\ ev.value = 1
        THEN [m EXCEPT !.q = Append(m.q, button)]
    ELSE IF ev.active_keys = <<>> /\ ev.code \in ups /\ ev.value = 0
            /\ InList(button, m.q)
        THEN [m EXCEPT !.tb = button]
    ELSE m

\* QueueRule registering the action whatever combination is held.
QueueRule_AnyCombination(m, ev, down, ups, button) ==
    IF Raised(m) THEN m
    ELSE IF ev.value = 1 /\ ~InList(button, m.q)
        THEN [m EXCEPT !.q = Append(m.q, button)]
    ELSE IF ev.active_keys = <<>> /\ ev.code \in ups /\ ev.value = 0
            /\ InList(button, m.q)
        THEN [m EXCEPT !.tb = button]
    ELSE m

\* One "if ... append / elif ... this_button = button" statement.
QueueRule(m, ev, down, ups, button) ==
    IF Raised(m) THEN m
    ELSE IF down /\ ev.value = 1 /\ ~InList(button, m.q)
        THEN [m EXCEPT !.q = Append(m.q, button)]
    ELSE IF ev.active_keys = <<>> /\ ev.code \in ups /\ ev.value = 0
            /\ InList(button, m.q)
        THEN [m EXCEPT !.tb = button]
    ELSE m

\* do_rumble up to its pause: nothing when the controller is taken.
RumbleStart(m) == IF m.cd THEN [m EXCEPT !.out = m.out \o <<Rumble, Sleep>>] ELSE m

\* FireList releasing the old action without emptying last_button after it.
FireList_SlotKept(m, guarded) ==
    IF Raised(m) THEN m
    ELSE IF Truthy(m.tb) /\ ~Truthy(m.lb) THEN
        LET m1 == IF guarded /\ ~InList(m.tb, m.q) THEN m ELSE QueueRemove(m, m.tb)
        IN  IF Raised(m1) THEN m1
            ELSE [m1 EXCEPT !.lb = m.tb, !.act = m.tb, !.val = 1]
    ELSE IF Truthy(m.lb) /\ ~Truthy(m.tb) THEN
        [m EXCEPT !.act = m.lb, !.val = 0]
    ELSE m

\* process_event releasing the old action and popping event_queue as well.
FireList_DemotePops(m, guarded) ==
    IF Raised(m) THEN m
    ELSE IF Truthy(m.tb) /\ ~Truthy(m.lb) THEN
        LET m1 == IF guarded /\ ~InList(m.tb, m.q) THEN m ELSE QueueRemove(m, m.tb)
        IN  IF Raised(m1) THEN m1
            ELSE [m1 EXCEPT !.lb = m.tb, !.act = m.tb, !.val = 1]
    ELSE IF Truthy(m.lb) /\ ~Truthy(m.tb) THEN
        [m EXCEPT !.act = m.lb, !.val = 0, !.clear = TRUE,
                  !.q = IF m.q = <<>> THEN <<>> ELSE Tail(m.q)]
    ELSE m

\* Create list of events to fire: the new press, or the old release.  The
\* emission is left in act/val, and clear says last_button = None follows it.
\* guarded is TRUE where the removal sits in try/except ValueError.
FireList(m, guarded) ==
    IF Raised(m) THEN m
    ELSE IF Truthy(m.tb) /\ ~Truthy(m.lb) THEN
        LET m1 == IF guarded /\ ~InList(m.tb, m.q) THEN m ELSE QueueRemove(m, m.tb)
        IN  IF Raised(m1) THEN m1
            ELSE [m1 EXCEPT !.lb = m.tb, !.act = m.tb, !.val = 1]
    ELSE IF Truthy(m.lb) /\ ~Truthy(m.tb) THEN
        [m EXCEPT !.act = m.lb, !.val = 0, !.clear = TRUE]
    ELSE m

\* The emission FireList left, run to its end.
Fire(m) ==
    IF Raised(m) \/ m.act = None THEN m
    ELSE LET m1 == Emitted(m, m.act, m.val)
         IN  [m1 EXCEPT !.lb = IF m.clear THEN None ELSE m1.lb,
                        !.act = None, !.clear = FALSE]

\* BUTTON 2 of oxp_gen5: the elif also rumbles.
QueueRuleRumble(m, ev, down, ups, button) ==
    IF Raised(m) THEN m
    ELSE IF down /\ ev.value = 1 /\ ~InList(button, m.q)
        THEN [m EXCEPT !.q = Append(m.q, button)]
    ELSE IF ev.active_keys = <<>> /\ ev.code \in ups /\ ev.value = 0
            /\ InList(button, m.q)
        THEN RumbleStart([m EXCEPT !.tb = button])
    ELSE m

\* The last statement of oxp_gen5: the same with the L_META elif.
QueueRuleMeta(m, ev, down, ups, button) ==
    IF Raised(m) THEN m
    ELSE IF down /\ ev.value = 1 /\ ~InList(button, m.q)
        THEN [m EXCEPT !.q = Append(m.q, button)]
    ELSE IF ev.active_keys = <<>> /\ ev.code \in ups /\ ev.value = 0
            /\ InList(button, m.q)
        THEN [m EXCEPT !.tb = button]
    ELSE IF ev.active_keys = <<>> /\ ev.code = 125 /\ ev.value = 0
            /\ m.q = <<>> /\ m.sd
        THEN [m EXCEPT !.sd = FALSE]
    ELSE m

oxp_gen5_process_event(m0, ev) ==
    LET b == button_map
        m1 == MissedKeys(PassVolume(m0, ev), ev)
        m2 == QueueRule(m1, ev, ev.active_keys = <<99, 125>>, {99, 125}, b[1])
        m3 == QueueRuleRumble(m2, ev, ev.active_keys = <<3, 97>>, {3, 97}, b[2])
        m4 == QueueRule(m3, ev, ev.active_keys = <<97, 100, 111>>, {100, 111}, b[3])
        m5 == QueueRule(m4, ev, ev.active_keys = <<24, 97, 125>>, {24, 97, 125}, b[4])
        m6 == QueueRule(m5, ev, ev.active_keys = <<32, 125>>, {32, 125}, b[5])
        m7 == QueueRuleMeta(m6, ev, ev.active_keys = <<34, 125>>, {34, 125}, b[6])
    IN  Fire(FireList(m7, FALSE))

\* A combination that resolves a side effect at once.
SideEffect(m, ev, keys, code, name) ==
    IF ev.active_keys = keys /\ ev.code = code /\ ev.value = 1
    THEN [m EXCEPT !.tb = Named(name)] ELSE m

\* BTN_A and BTN_X are emitted directly.
Direct(m, ev, key, button) ==
    IF ev.active_keys = <<key>> /\ ev.value \in {1, 2} THEN Emitted(m, button, 1)
    ELSE IF ev.active_keys = <<>> /\ ev.code = key /\ ev.value = 0
        THEN Emitted(m, button, 0)
    ELSE m

\* BUTTON 8: registering it rumbles, which pauses when the controller is bound.
QueueRuleDownRumble(m, ev, down, ups, button) ==
    IF down /\ ev.value = 1 /\ ~InList(button, m.q)
        THEN [RumbleStart([m EXCEPT !.q = Append(m.q, button)]) EXCEPT !.susp = m.cd]
    ELSE IF ev.active_keys = <<>> /\ ev.code \in ups /\ ev.value = 0
            /\ InList(button, m.q)
        THEN [m EXCEPT !.tb = button]
    ELSE m

\* EventEmitter.process_event up to the rumble of BUTTON 8.
process_event_head(m0, ev) ==
    LET b == button_map
        m1 == MissedKeys(m0, ev)
        s1 == SideEffect(m1, ev, <<186, 311>>, 186, "Increase screen brightness")
        s2 == SideEffect(s1, ev, <<186, 310>>, 186, "Decrease screen brightness")
        s3 == SideEffect(s2, ev, <<148, 311>>, 148, "Increase led brightness")
        s4 == SideEffect(s3, ev, <<148, 310>>, 148, "Decrease led brightness")
        s5 == SideEffect(s4, ev, <<148, 310, 311>>, 148, "Switch led mode")
        s6 == SideEffect(s5, ev, <<186, 310, 311>>, 186, "Toggle Performance")
        s7 == SideEffect(s6, ev, <<186, 307>>, 186, "Open Keyboard")
        d1 == Direct(s7, ev, 187, EVENT_BTN_A)
        d2 == Direct(d1, ev, 188, EVENT_BTN_X)
        r1 == QueueRule(d2, ev, ev.active_keys = <<184>>, {184, 185}, b[1])
        r2 == QueueRule(r1, ev, ev.active_keys = <<148>>, {148}, b[2])
        r3 == QueueRule(r2, ev, ev.active_keys = <<25, 125>>, {49, 125, 185}, b[3])
        r4 == QueueRule(r3, ev, ev.active_keys = <<88>>, {88, 185}, b[4])
        r5 == QueueRule(r4, ev, ev.active_keys = <<186>>, {186}, b[5])
        r6 == QueueRule(r5, ev, ev.active_keys = <<68>>, {68, 185}, b[6])
    IN  QueueRuleDownRumble(r6, ev, ev.active_keys = <<29, 56, 111>>,
                            {29, 56, 111}, b[8])

\* EventEmitter.process_event from BUTTON 9 on; the emission is left in
\* act/val for the task to run.
process_event_tail(m0, ev) ==
    LET b == button_map
        r9 == QueueRule(m0, ev, ev.active_keys = <<1, 29, 42>>, {1, 29, 42, 185}, b[9])
        r10 == QueueRule(r9, ev, ev.active_keys = <<32, 125>>, {32, 125, 185}, b[10])
        r11 == QueueRule(r10, ev, ev.active_keys = <<15, 125>>, {15, 125, 185}, b[11])
        r12 == QueueRule(r11, ev, ev.active_keys = <<49, 125>>, {25, 125, 185}, b[12])
    IN  FireList(r12, TRUE)

-----------------------------------------------------------------------------
(* The raw events a keyboard delivers: a key event and the active_keys()   *)
(* snapshot read with it.                                                  *)

Ev(type, code, value, keys) ==
    [type |-> type, code |-> code, value |-> value, active_keys |-> keys]
NoEvent == Ev(0, 0, 0, <<>>)
Elems(s) == {s[i] : i \in 1..Len(s)}

\* The combinations keyboard k of the modelled handheld is made to report:
\* combinations its process_event names, one it does not name (<<30>>) and,
\* where the profile passes them, a volume key.
Chords(st, k) ==
    CASE st = "ALY_GEN1" /\ k = 1 ->
            {<<186>>, <<148>>, <<187>>, <<186, 310, 311>>}
      [] st = "ALY_GEN1" /\ k = 2 -> {<<29, 56, 111>>}
      [] st = "OXP_GEN5" /\ k = 1 ->
            {<<99, 125>>, <<3, 97>>, <<32, 125>>, <<34, 125>>, <<30>>, <<115>>}
      [] st = "AYA_GEN1" /\ k = 1 ->
            {<<125>>, <<97, 100, 111>>, <<1>>, <<24, 97, 125>>, <<30>>, <<115>>}
      [] st = "AYA_GEN2" /\ k = 1 ->
            {<<40, 133>>, <<32, 125>>, <<96, 105, 133>>, <<88, 97, 125>>,
             <<30>>, <<114>>}
      [] st = "AYA_GEN7" /\ k = 1 ->
            {<<29, 125, 185>>, <<32, 125>>, <<29, 125, 186>>, <<29, 125, 187>>,
             <<30>>, <<115>>}
      [] st = "AYN_GEN3" /\ k = 1 ->
            {<<111>>, <<20, 29, 42, 56>>, <<30>>, <<114>>}
      [] OTHER -> {}

KeyCodes(st, k) == UNION {Elems(c) : c \in Chords(st, k)}

\* A key going down or repeating while its combination is held (the key is
\* the first or the last of the combination); a key going up with nothing
\* held any more; a key that went down and up before it was read; a key
\* going up while another is held; the SYN_REPORT that follows.
RawEvents(st, k) ==
    {Ev(1, c[1], v, c) : c \in Chords(st, k), v \in {1, 2}}
    \cup {Ev(1, c[Len(c)], v, c) : c \in Chords(st, k), v \in {1, 2}}
    \cup {Ev(1, c, 0, <<>>) : c \in KeyCodes(st, k)}
    \cup {Ev(1, 30, 1, <<>>), Ev(1, 31, 0, <<30>>), Ev(0, 0, 0, <<>>)}

-----------------------------------------------------------------------------
(* Device management: the handles, the grabs and the device nodes.  An     *)
(* adapter is one capture_*_events task with the device it reads:          *)
(*   device, event, path  TRUE when X_device, X_event, X_path are not None *)
(*   grabbed              the daemon holds the grab of the device          *)
(*   node                 where the device node is: at its path, in        *)
(*                        HIDE_PATH, or deleted                            *)
(*   loop                 the task: "running", "raised" (ended by an       *)
(*                        exception), "returned", "cancelled"              *)
(*   err                  the exception that ended the task                *)
(*   dev                  name and phys of the device the handle is of     *)

Nodes == {"controller", "keyboard", "keyboard_2"}
Adapters == Nodes \cup {"power"}

\* GAMEPAD_NAME/ADDRESS, KEYBOARD_NAME/ADDRESS as oxp_gen5 sets them, and
\* KEYBOARD_2_NAME/ADDRESS as the class has them.
Profile(a) ==
    IF a = "controller" THEN [name |-> "Microsoft X-Box 360 pad", phys |-> ""]
    ELSE IF a = "keyboard"
        THEN [name |-> "AT Translated Set 2 keyboard", phys |-> "isa0060/serio0/input0"]
    ELSE [name |-> "", phys |-> ""]

\* What list_devices() can enumerate: every name with every address.
InputDevices ==
    {[name |-> n, phys |-> p] : n \in {Profile(a).name : a \in Nodes},
                                p \in {Profile(a).phys : a \in Nodes}}
NoDev == [name |-> "None", phys |-> "None"]

Unbound == [device |-> FALSE, event |-> FALSE, path |-> FALSE, grabbed |-> FALSE,
            node |-> "path", loop |-> "running", err |-> "", dev |-> NoDev]
Bound == [Unbound EXCEPT !.device = TRUE, !.path = TRUE]
Hidden == [Bound EXCEPT !.grabbed = TRUE, !.event = TRUE, !.node = "hidden"]

\* Adapter record r of a: a handle of controller, keyboard or keyboard_2 is
\* of the device that get_controller, get_keyboard or get_keyboard_2 chose.
WithDev(a, r) ==
    IF a \in Nodes /\ r.device THEN [r EXCEPT !.dev = Profile(a)] ELSE r

\* capture_ff_events before its first event: no effect is on the controller.
\*   loop      "running", or "raised" when an exception ended the task
\*   effects   the effect ids the controller holds for the daemon's handle
\*   rumble    the effect do_rumble holds, or -1
\*   code, id  the request read last; done: the controller carried it out;
\*   answered, retval: end_upload/end_erase was called, and with what
\*   sent: the effect id the last upload was passed to the controller with
\*   uploaded: the ids capture_ff_events has uploaded and not erased since
NoRequest == [loop |-> "running", effects |-> {}, rumble |-> -1, code |-> "", id |-> 0,
              done |-> FALSE, answered |-> FALSE, retval |-> 0, sent |-> 0,
              uploaded |-> {}]
FFIdle ==
    /\ ff_effect_id_set = {}
    /\ ff = NoRequest

\* Product names id_system knows (two of them) and one it does not.
SystemIds == {"Win600", "ONEXPLAYER F1", "Jupiter"}
Supported(id) == id \in {"Win600", "ONEXPLAYER F1"}

\* EventEmitter.perf_modes, in the order of its keys.
perf_modes ==
    <<[name |-> "Max Boost", mode |-> "--max-performance", thermal_mode |-> "1"],
      [name |-> "Average Performance", mode |-> "--max-performance", thermal_mode |-> "1"],
      [name |-> "Power Saving", mode |-> "--power-saving", thermal_mode |-> "0"]>>

\* EventEmitter.__init__: mode_gen() has yielded nothing, toggle_performance
\* was not called.
\*   mode_generator  how many modes the generator has yielded, modulo their number
\*   pc              where toggle_performance is
\*   mode_name, cmd_args, thermal_mode   its locals
\*   ryzenadj        the toasts and ryzenadj commands run so far
NoToggle == [mode_generator |-> 0, pc |-> "idle", mode_name |-> "", cmd_args |-> <<>>,
             thermal_mode |-> "", ryzenadj |-> <<>>]

\* __init__ has run to run_forever on a handheld id_system knows.
Started ==
    /\ startup = "started"
    /\ opengamepadui = FALSE
    /\ system_id = "ONEXPLAYER F1"
    /\ FFIdle
    /\ perf = NoToggle

Capture(a) ==
    CASE a = "controller" -> CAPTURE_CONTROLLER
      [] a \in {"keyboard", "keyboard_2"} -> CAPTURE_KEYBOARD
      [] a = "power" -> CAPTURE_POWER

\* The handheld modules set the three flags; the keyboards deliver events,
\* so they are bound, grabbed and hidden, and so is the controller when its
\* handle is bound.
Captured(cd) ==
    /\ running = TRUE
    /\ CAPTURE_CONTROLLER = TRUE /\ CAPTURE_KEYBOARD = TRUE /\ CAPTURE_POWER = TRUE
    /\ adapter = [a \in Adapters |->
                    IF a = "controller" /\ ~cd THEN Unbound
                    ELSE IF a = "power" THEN [Bound EXCEPT !.grabbed = TRUE, !.loop = "returned"]
                    ELSE WithDev(a, Hidden)]
    /\ exited = "no"
    /\ Started

-----------------------------------------------------------------------------
(* The configuration and the initial state.                                *)

SystemTypes == {"ALY_GEN1", "OXP_GEN5", "AYA_GEN1", "AYA_GEN2", "AYA_GEN7", "AYN_GEN3"}
Keyboards == {1, 2}

\* set_default_config and map_config.
DefaultConfig ==
    [i \in 1..12 |->
        EVENT_MAP[<<"SCR", "QAM", "ESC", "OSK", "MODE", "OPEN_CHIMERA",
                    "TOGGLE_PERFORMANCE", "MODE", "TOGGLE_MOUSE", "ALT_TAB",
                    "KILL", "TOGGLE_GYRO">>[i]]]

\* A configuration file that gives button6 the action of button2.
Button6Config == [DefaultConfig EXCEPT ![6] = EVENT_MAP["QAM"]]

ButtonMaps == {DefaultConfig, Button6Config}

\* Button6Config is tried on the handhelds that read button6 and have a
\* combination for button2.
Setups ==
    {x \in SystemTypes \X ButtonMaps :
        x[2] = DefaultConfig \/ x[1] \in {"AYA_GEN1", "OXP_GEN5"}}

IdleTask == [pc |-> "idle", ev |-> NoEvent, tb |-> None, act |-> None,
             val |-> 0, rest |-> <<>>, clear |-> FALSE, err |-> ""]

Init ==
    /\ \E x \in Setups : system_type = x[1] /\ button_map = x[2]
    /\ event_queue = <<>>
    /\ last_button = None
    /\ shutdown = FALSE
    /\ controller_device \in BOOLEAN
    /\ task = [k \in Keyboards |-> IdleTask]
    /\ seed = [k |-> 0, ev |-> NoEvent]
    /\ out = <<>>
    /\ asserted = {}
    /\ scheduled = <<>>
    /\ Captured(controller_device)

-----------------------------------------------------------------------------
(* The keyboard tasks.                                                     *)

\* The step of keyboard task k ends in machine state m with locals t.
Commit(k, m, t) ==
    /\ event_queue' = m.q
    /\ last_button' = m.lb
    /\ shutdown' = m.sd
    /\ asserted' = m.hot
    /\ out' = m.out
    /\ task' = [task EXCEPT ![k] = IF Raised(m)
                                    THEN [IdleTask EXCEPT !.pc = "lost", !.err = m.err]
                                    ELSE t]
    /\ scheduled' = LET others == SelectSeq(scheduled, LAMBDA x : x /= k)
                    IN  IF ~Raised(m) /\ t.pc = "emit" /\ ~IsStr(t.act)
                        THEN Append(others, k)
                        ELSE others
    /\ UNCHANGED <<system_type, button_map, controller_device>>
    /\ UNCHANGED devvars
    /\ UNCHANGED auxvars

\* A handheld with one keyboard: nothing else touches event_queue and
\* last_button, and process_event runs to its end.
ProcessEvent(m, ev) ==
    CASE system_type = "OXP_GEN5" -> oxp_gen5_process_event(m, ev)
      [] system_type = "AYA_GEN1" -> aya_gen1_process_event(m, ev)
      [] system_type = "AYA_GEN2" -> aya_gen2_process_event(m, ev)
      [] system_type = "AYA_GEN7" -> aya_gen7_process_event(m, ev)
      [] system_type = "AYN_GEN3" -> ayn_gen3_process_event(m, ev)

ReadEvent(k) ==
    /\ system_type /= "ALY_GEN1"
    /\ task[k].pc = "idle"
    /\ \E ev \in RawEvents(system_type, k) :
        /\ seed' = [k |-> k, ev |-> ev]
        /\ Commit(k, ProcessEvent(Machine(<<>>), ev), IdleTask)

\* emit_now in a task that shares event_queue and last_button with the
\* other keyboard: it runs up to its first pause.
EmitSome(k, m, items, act, val, clear) ==
    LET first == UpToSleep(items)
        rest == AfterSleep(items)
        paused == first /= <<>> /\ first[Len(first)] = Sleep
        hot == IF val = 1 /\ HasWrite(first) THEN m.hot \cup {act}
               ELSE IF val = 0 /\ HasWrite(first) /\ ~HasWrite(rest) THEN m.hot \ {act}
               ELSE m.hot
        m1 == [m EXCEPT !.out = m.out \o first, !.hot = hot,
                        !.lb = IF ~paused /\ clear THEN None ELSE m.lb]
    IN  Commit(k, m1,
               IF paused
               THEN [IdleTask EXCEPT !.pc = "emit", !.act = act, !.val = val,
                                     !.rest = rest, !.clear = clear]
               ELSE IdleTask)

\* process_event from BUTTON 9 to the end of the first part of its emission.
Finish(k, m, ev) ==
    LET m1 == process_event_tail(m, ev)
    IN  IF m1.act = None THEN Commit(k, m1, IdleTask)
        ELSE EmitSome(k, m1, emit_now(m1.act, m1.val), m1.act, m1.val, m1.clear)

\* AllyReadEvent taking the next event while the last one is still being
\* emitted.
AllyReadEvent_NoWait(k) ==
    /\ system_type = "ALY_GEN1"
    /\ \E ev \in RawEvents(system_type, k) :
        /\ seed' = [k |-> k, ev |-> ev]
        /\ LET m == process_event_head(Machine(<<>>), ev)
           IN  IF m.susp
               THEN Commit(k, m, [IdleTask EXCEPT !.pc = "rumble", !.ev = ev, !.tb = m.tb])
               ELSE Finish(k, m, ev)

AllyReadEvent(k) ==
    /\ system_type = "ALY_GEN1"
    /\ task[k].pc = "idle"
    /\ \E ev \in RawEvents(system_type, k) :
        /\ seed' = [k |-> k, ev |-> ev]
        /\ LET m == process_event_head(Machine(<<>>), ev)
           IN  IF m.susp
               THEN Commit(k, m, [IdleTask EXCEPT !.pc = "rumble", !.ev = ev, !.tb = m.tb])
               ELSE Finish(k, m, ev)

\* do_rumble after its pause: erase_effect on the controller handle, which
\* raises when the handle was dropped meanwhile.
RumbleDone(k) ==
    /\ task[k].pc = "rumble"
    /\ seed' = seed
    /\ LET m == [Machine(<<>>) EXCEPT !.tb = task[k].tb]
       IN  IF ~controller_device
           THEN Commit(k, [m EXCEPT !.err = "AttributeError"], IdleTask)
           ELSE Finish(k, m, task[k].ev)

\* emit_events after a pause, and what follows the emission.  The pauses of
\* emit_events all last BUTTON_DELAY, so the tasks in them wake in the order
\* they paused; the pause of toggle_performance has its own length.
EmitNext(k) ==
    /\ task[k].pc = "emit"
    /\ scheduled /= <<>> /\ ~IsStr(task[k].act) => Head(scheduled) = k
    /\ seed' = seed
    /\ EmitSome(k, Machine(<<>>), task[k].rest, task[k].act, task[k].val,
                task[k].clear)

\* capture_keyboard_events after an exception: the device is grabbed again.
Redetect(k) ==
    /\ task[k].pc = "lost"
    /\ task' = [task EXCEPT ![k] = IdleTask]
    /\ UNCHANGED <<system_type, button_map, event_queue, last_button, shutdown,
                   controller_device, seed, out, asserted, scheduled>>
    /\ UNCHANGED devvars
    /\ UNCHANGED auxvars

Next ==
    \/ \E k \in Keyboards : ReadEvent(k)
    \/ \E k \in Keyboards : AllyReadEvent(k)
    \/ \E k \in Keyboards : RumbleDone(k)
    \/ \E k \in Keyboards : EmitNext(k)
    \/ \E k \in Keyboards : Redetect(k)

Spec == Init /\ [][Next]_vars

\* The OXP handheld on its own with the default button map, its keyboard
\* delivering events for ever: the read loop is ready for the next event
\* whenever one has been processed, so infinitely many events are read.
OxpInit ==
    /\ Init
    /\ system_type = "OXP_GEN5" /\ button_map = DefaultConfig /\ controller_device

OxpNext ==
    \/ \E k \in Keyboards : ReadEvent(k)

\* async_read_loop of an idle keyboard task yields its next event.
Arrival ==
    \E k \in Keyboards :
        /\ task[k].pc = "idle"
        /\ \E ev \in RawEvents(system_type, k) : seed' = [k |-> k, ev |-> ev]

OxpSpec == OxpInit /\ [][OxpNext]_vars /\ WF_seed(Arrival)

-----------------------------------------------------------------------------
(* emit_now on its own: an action is pressed, then released.               *)

MaxPairs == 3
PairCodes == {304, 307, 316, 317}

\* The actions emit_now is given: every list of 1..MaxPairs (type, code)
\* pairs, two side-effect names, a power-mode name, a name no case of the
\* match statement has, and the empty action.
EmitActions ==
    {Pairs(ps) : ps \in UNION {[1..n -> {<<1, c>> : c \in PairCodes}] : n \in 1..MaxPairs}}
    \cup {Named("Open Chimera"), Named("Toggle Performance"), Named("Suspend"),
          Named("Undefined"), Pairs(<<>>)}

\* The key events among what was done.
Writes(items) == SelectSeq(items, LAMBDA x : x.kind = "write")

EmitInit ==
    /\ system_type = "ALY_GEN1"
    /\ button_map = DefaultConfig
    /\ event_queue = <<>>
    /\ last_button = None
    /\ shutdown = FALSE
    /\ controller_device = TRUE
    /\ task = [k \in Keyboards |-> IdleTask]
    /\ seed = [k |-> 0, ev |-> NoEvent]
    /\ out = <<>>
    /\ asserted = {}
    /\ scheduled = <<>>
    /\ Captured(TRUE)

\* await emit_now(seed_event, event_list, 1)
EmitPress ==
    /\ task[1].pc = "idle" /\ task[1].act = None
    /\ \E event_list \in EmitActions :
        /\ task' = [task EXCEPT ![1] = [IdleTask EXCEPT !.pc = "emit", !.act = event_list, !.val = 1]]
        /\ out' = emit_now(event_list, 1)
    /\ UNCHANGED <<system_type, button_map, event_queue, last_button, shutdown,
                   controller_device, seed, asserted, scheduled>>
    /\ UNCHANGED devvars
    /\ UNCHANGED auxvars

\* await emit_now(seed_event, event_list, 0) for the action pressed before
EmitRelease ==
    /\ task[1].pc = "emit"
    /\ task' = [task EXCEPT ![1] = [IdleTask EXCEPT !.act = task[1].act]]
    /\ out' = out \o emit_now(task[1].act, 0)
    /\ UNCHANGED <<system_type, button_map, event_queue, last_button, shutdown,
                   controller_device, seed, asserted, scheduled>>
    /\ UNCHANGED devvars
    /\ UNCHANGED auxvars

EmitNow ==
    \/ EmitPress
    \/ EmitRelease

EmitSpec == EmitInit /\ [][EmitNow]_vars

-----------------------------------------------------------------------------
(* The adapters on their own: detection, read failures, shutdown.          *)

\* devices.restore_device and devices.remove_device, as they change where
\* the node is; a node that is not in HIDE_PATH is left where it is.
restore_device(node) == IF node = "hidden" THEN "path" ELSE node
remove_device(node) == IF node = "hidden" THEN "removed" ELSE node

\* The test of the loop over devices_original.
matches(device, profile) ==
    device.name = profile.name /\ device.phys = profile.phys

\* get_controller, get_keyboard, get_keyboard_2 on adapter record r: the
\* enumeration devices_original holds a device that matches the profile or
\* none, and InputDevice(), grab() or shutil.move may raise (fail).
get_keyboard(r, capture, devices_original, profile, fail) ==
    LET found == {d \in devices_original : matches(d, profile)}
    IN  IF found = {} THEN r
        ELSE LET device == CHOOSE d \in found : TRUE
                 p == [r EXCEPT !.path = TRUE]
                 h == [p EXCEPT !.device = TRUE, !.dev = device]
             IN  IF fail = "open"
                     THEN [p EXCEPT !.loop = "raised", !.err = "OSError"]
                 ELSE IF ~capture THEN h
                 ELSE IF fail = "grab"
                     THEN [h EXCEPT !.loop = "raised", !.err = "IOError"]
                 ELSE IF fail = "move"
                     THEN [h EXCEPT !.grabbed = TRUE, !.event = TRUE,
                                    !.loop = "raised", !.err = "OSError"]
                 ELSE [h EXCEPT !.grabbed = TRUE, !.event = TRUE, !.node = "hidden"]

\* get_powerkey, and capture_power_events returning after it.
get_powerkey(r, capture, found, fail) ==
    IF ~found THEN [r EXCEPT !.loop = "returned"]
    ELSE IF ~capture THEN [r EXCEPT !.device = TRUE, !.loop = "returned"]
    ELSE IF fail = "grab"
        THEN [r EXCEPT !.device = TRUE, !.loop = "raised", !.err = "IOError"]
    ELSE [r EXCEPT !.device = TRUE, !.grabbed = TRUE, !.loop = "returned"]

\* The except branch of a capture loop: HIDE_PATH / None raises TypeError.
read_failed(r) ==
    IF ~r.event THEN [r EXCEPT !.loop = "raised", !.err = "TypeError"]
    ELSE [r EXCEPT !.node = remove_device(r.node), !.device = FALSE,
                   !.event = FALSE, !.path = FALSE, !.grabbed = FALSE,
                   !.dev = NoDev]

\* exit() for one of controller, keyboard, keyboard_2: s holds the adapters
\* so far and whether exit() has raised.
exit_device(s, a) ==
    IF s.raised \/ ~s.ad[a].device THEN s
    ELSE IF ~s.ad[a].event
        THEN [ad |-> [s.ad EXCEPT ![a].grabbed = FALSE], raised |-> TRUE]
    ELSE [ad |-> [s.ad EXCEPT ![a].grabbed = FALSE,
                              ![a].node = restore_device(s.ad[a].node)],
          raised |-> FALSE]

\* exit() for the power device, then the cancellation of the tasks.
exit_power(s) ==
    IF s.raised \/ ~(s.ad["power"].device /\ CAPTURE_POWER) THEN s
    ELSE [s EXCEPT !.ad["power"].grabbed = FALSE]
exit_tasks(s) ==
    IF s.raised THEN s
    ELSE [s EXCEPT !.ad = [a \in Adapters |->
                    IF s.ad[a].loop = "running"
                    THEN [s.ad[a] EXCEPT !.loop = "cancelled"] ELSE s.ad[a]]]

DeviceInit ==
    /\ system_type = "OXP_GEN5"
    /\ button_map = DefaultConfig
    /\ event_queue = <<>>
    /\ last_button = None
    /\ shutdown = FALSE
    /\ controller_device = FALSE
    /\ task = [k \in Keyboards |-> IdleTask]
    /\ seed = [k |-> 0, ev |-> NoEvent]
    /\ out = <<>>
    /\ asserted = {}
    /\ scheduled = <<>>
    /\ running = TRUE
    /\ CAPTURE_CONTROLLER \in BOOLEAN
    /\ CAPTURE_KEYBOARD \in BOOLEAN
    /\ CAPTURE_POWER \in BOOLEAN
    /\ adapter = [a \in Adapters |-> Unbound]
    /\ exited = "no"
    /\ Started

\* The else branch of a capture loop: get_X(), then the DETECT_DELAY sleep.
\* A node that is hidden or deleted is not enumerated.
Detect(a) ==
    /\ running /\ adapter[a].loop = "running" /\ ~adapter[a].device
    /\ \E devices_original \in SUBSET InputDevices,
          fail \in {"", "open", "grab", "move"} :
        /\ Profile(a) \in devices_original => adapter[a].node = "path"
        /\ adapter' = [adapter EXCEPT
                         ![a] = get_keyboard(adapter[a], Capture(a), devices_original,
                                             Profile(a), fail)]
    /\ controller_device' = IF a = "controller" THEN adapter'[a].device
                            ELSE controller_device
    /\ UNCHANGED <<system_type, button_map, event_queue, last_button, shutdown,
                   task, seed, out, asserted, scheduled>>
    /\ UNCHANGED <<running, CAPTURE_CONTROLLER, CAPTURE_KEYBOARD, CAPTURE_POWER,
                   exited>>
    /\ UNCHANGED auxvars

\* capture_power_events: no power device yet, one get_powerkey(), return.
DetectPower ==
    /\ running /\ adapter["power"].loop = "running" /\ ~adapter["power"].device
    /\ \E found \in BOOLEAN, fail \in {"", "grab"} :
        adapter' = [adapter EXCEPT
                      !["power"] = get_powerkey(adapter["power"], CAPTURE_POWER,
                                                found, fail)]
    /\ UNCHANGED corevars
    /\ UNCHANGED <<running, CAPTURE_CONTROLLER, CAPTURE_KEYBOARD, CAPTURE_POWER,
                   exited>>
    /\ UNCHANGED auxvars

\* The read loop of a bound device raises.
ReadFail(a) ==
    /\ adapter[a].loop = "running" /\ adapter[a].device
    /\ adapter' = [adapter EXCEPT ![a] = read_failed(adapter[a])]
    /\ controller_device' = IF a = "controller" THEN adapter'[a].device
                            ELSE controller_device
    /\ UNCHANGED <<system_type, button_map, event_queue, last_button, shutdown,
                   task, seed, out, asserted, scheduled>>
    /\ UNCHANGED <<running, CAPTURE_CONTROLLER, CAPTURE_KEYBOARD, CAPTURE_POWER,
                   exited>>
    /\ UNCHANGED auxvars

\* A shutdown signal: exit() from its first line to its last, or to the
\* line that raises.
Exit ==
    /\ startup = "started" /\ exited = "no"
    /\ LET s0 == [ad |-> adapter, raised |-> FALSE]
           s1 == exit_device(s0, "controller")
           s2 == exit_device(s1, "keyboard")
           s3 == exit_device(s2, "keyboard_2")
           s4 == exit_tasks(exit_power(s3))
       IN  /\ adapter' = s4.ad
           /\ exited' = IF s4.raised THEN "raised" ELSE "done"
    /\ running' = FALSE
    /\ controller_device' = controller_device
    /\ UNCHANGED <<system_type, button_map, event_queue, last_button, shutdown,
                   task, seed, out, asserted, scheduled>>
    /\ UNCHANGED <<CAPTURE_CONTROLLER, CAPTURE_KEYBOARD, CAPTURE_POWER>>
    /\ UNCHANGED auxvars

DeviceNext ==
    \/ \E a \in Nodes : Detect(a)
    \/ DetectPower
    \/ \E a \in Nodes : ReadFail(a)
    \/ Exit

DeviceSpec == DeviceInit /\ [][DeviceNext]_vars

-----------------------------------------------------------------------------
(* The daemon from its first line: HandheldController.__init__, then the   *)
(* adapters.                                                               *)

\* Nothing is bound and no task exists; nodes a run before this one left in
\* HIDE_PATH may still be there.
StartInit ==
    /\ system_type = "OXP_GEN5"
    /\ button_map = DefaultConfig
    /\ event_queue = <<>>
    /\ last_button = None
    /\ shutdown = FALSE
    /\ controller_device = FALSE
    /\ task = [k \in Keyboards |-> IdleTask]
    /\ seed = [k |-> 0, ev |-> NoEvent]
    /\ out = <<>>
    /\ asserted = {}
    /\ scheduled = <<>>
    /\ running = FALSE
    /\ CAPTURE_CONTROLLER = FALSE
    /\ CAPTURE_KEYBOARD = FALSE
    /\ CAPTURE_POWER = FALSE
    /\ adapter \in [Adapters -> {[Unbound EXCEPT !.loop = "unstarted"],
                                 [Unbound EXCEPT !.loop = "unstarted", !.node = "hidden"]}]
    /\ adapter["power"].node = "path"
    /\ exited = "no"
    /\ startup = "init"
    /\ opengamepadui \in BOOLEAN
    /\ system_id \in SystemIds
    /\ FFIdle
    /\ perf = NoToggle

\* __init__ to the opengamepadui test: exit() there is SystemExit.
InitCheck ==
    /\ startup = "init"
    /\ running' = TRUE
    /\ startup' = IF opengamepadui THEN "exited" ELSE "checked"
    /\ UNCHANGED <<corevars, CAPTURE_CONTROLLER, CAPTURE_KEYBOARD, CAPTURE_POWER,
                   adapter, exited, opengamepadui, system_id, ffvars, perf>>

\* restore_hidden: every node in HIDE_PATH is moved to /dev/input.
RestoreHidden ==
    /\ startup = "checked"
    /\ adapter' = [a \in Adapters |->
                    [adapter[a] EXCEPT !.node = restore_device(adapter[a].node)]]
    /\ startup' = "restored"
    /\ UNCHANGED <<corevars, running, CAPTURE_CONTROLLER, CAPTURE_KEYBOARD,
                   CAPTURE_POWER, exited, opengamepadui, system_id, ffvars, perf>>

\* id_system going on with a product name it does not know.
IdSystem_NoExit ==
    /\ startup = "restored"
    /\ startup' = "identified"
    /\ CAPTURE_CONTROLLER' \in BOOLEAN
    /\ CAPTURE_KEYBOARD' \in BOOLEAN
    /\ CAPTURE_POWER' \in BOOLEAN
    /\ UNCHANGED <<corevars, running, adapter, exited, opengamepadui, system_id, ffvars, perf>>

\* id_system: the handheld's init_handheld sets the capture flags; a
\* product name that is not listed ends in sys.exit(0).
IdSystem ==
    /\ startup = "restored"
    /\ IF Supported(system_id)
       THEN /\ startup' = "identified"
            /\ CAPTURE_CONTROLLER' \in BOOLEAN
            /\ CAPTURE_KEYBOARD' \in BOOLEAN
            /\ CAPTURE_POWER' \in BOOLEAN
       ELSE /\ startup' = "exited"
            /\ UNCHANGED <<CAPTURE_CONTROLLER, CAPTURE_KEYBOARD, CAPTURE_POWER>>
    /\ UNCHANGED <<corevars, running, adapter, exited, opengamepadui, system_id, ffvars, perf>>

\* get_config, ui_device, then ensure_future for every capture task and
\* the signal handlers.
StartTasks ==
    /\ startup = "identified"
    /\ adapter' = [a \in Adapters |-> [adapter[a] EXCEPT !.loop = "running"]]
    /\ startup' = "started"
    /\ UNCHANGED <<corevars, running, CAPTURE_CONTROLLER, CAPTURE_KEYBOARD,
                   CAPTURE_POWER, exited, opengamepadui, system_id, ffvars, perf>>

StartNext ==
    \/ InitCheck
    \/ RestoreHidden
    \/ IdSystem
    \/ StartTasks
    \/ DeviceNext

StartSpec == StartInit /\ [][StartNext]_vars

-----------------------------------------------------------------------------
(* capture_ff_events: the upload and erase requests of the virtual device  *)
(* are passed to the controller, whose effects do_rumble uses as well.     *)

MaxEffects == 3
EffectIds == 0..(MaxEffects - 1)
IOError == -2

\* controller_device.upload_effect: id -1 takes the lowest free id, an id
\* the handle holds is updated, any other id is refused; ok is FALSE when
\* the device fails for a reason of its own.
upload_effect(effects, id, ok) ==
    LET free == EffectIds \ effects
    IN  IF ~ok THEN IOError
        ELSE IF id = -1
            THEN IF free = {} THEN IOError
                 ELSE CHOOSE i \in free : \A j \in free : i <= j
        ELSE IF id \in effects THEN id
        ELSE IOError

\* controller_device.erase_effect: TRUE when the effect was there.
erase_effect(effects, id, ok) == ok /\ id \in effects

\* The id the effect is uploaded with: -1 unless the set holds its id.
effect_id_sent(id, ids) == IF id \notin ids THEN -1 ELSE id

\* The UI_FF_UPLOAD branch leaving ff_effect_id_set as it is.
ff_upload_NoAdd(id, ok) ==
    LET sent == effect_id_sent(id, ff_effect_id_set)
        effect_id == upload_effect(ff.effects, sent, ok)
    IN  /\ ff' = IF effect_id = IOError
                 THEN [ff EXCEPT !.code = "UI_FF_UPLOAD", !.id = id, !.done = FALSE,
                                 !.answered = TRUE, !.retval = -1, !.sent = sent]
                 ELSE [ff EXCEPT !.code = "UI_FF_UPLOAD", !.id = id, !.done = TRUE,
                                 !.answered = TRUE, !.retval = 0, !.sent = sent,
                                 !.effects = @ \cup {effect_id},
                                 !.uploaded = @ \cup {effect_id}]
        /\ ff_effect_id_set' = ff_effect_id_set

\* The UI_FF_UPLOAD branch.
ff_upload(id, ok) ==
    LET sent == effect_id_sent(id, ff_effect_id_set)
        effect_id == upload_effect(ff.effects, sent, ok)
    IN  IF effect_id = IOError
        THEN /\ ff' = [ff EXCEPT !.code = "UI_FF_UPLOAD", !.id = id, !.done = FALSE,
                                 !.answered = TRUE, !.retval = -1, !.sent = sent]
             /\ ff_effect_id_set' = ff_effect_id_set
        ELSE /\ ff' = [ff EXCEPT !.code = "UI_FF_UPLOAD", !.id = id, !.done = TRUE,
                                 !.answered = TRUE, !.retval = 0, !.sent = sent,
                                 !.effects = @ \cup {effect_id},
                                 !.uploaded = @ \cup {effect_id}]
             /\ ff_effect_id_set' = ff_effect_id_set \cup {effect_id}

\* The UI_FF_ERASE branch: set.remove raises KeyError, which is no IOError.
ff_erase(id, ok) ==
    IF ~erase_effect(ff.effects, id, ok)
    THEN /\ ff' = [ff EXCEPT !.code = "UI_FF_ERASE", !.id = id, !.done = FALSE,
                             !.answered = TRUE, !.retval = -1]
         /\ ff_effect_id_set' = ff_effect_id_set
    ELSE IF id \notin ff_effect_id_set
    THEN /\ ff' = [ff EXCEPT !.code = "UI_FF_ERASE", !.id = id, !.done = TRUE,
                             !.answered = FALSE, !.loop = "raised",
                             !.effects = @ \ {id}, !.uploaded = @ \ {id}]
         /\ ff_effect_id_set' = ff_effect_id_set
    ELSE /\ ff' = [ff EXCEPT !.code = "UI_FF_ERASE", !.id = id, !.done = TRUE,
                             !.answered = TRUE, !.retval = 0,
                             !.effects = @ \ {id}, !.uploaded = @ \ {id}]
         /\ ff_effect_id_set' = ff_effect_id_set \ {id}

FFInit ==
    /\ system_type = "OXP_GEN5"
    /\ button_map = DefaultConfig
    /\ event_queue = <<>>
    /\ last_button = None
    /\ shutdown = FALSE
    /\ controller_device \in BOOLEAN
    /\ task = [k \in Keyboards |-> IdleTask]
    /\ seed = [k |-> 0, ev |-> NoEvent]
    /\ out = <<>>
    /\ asserted = {}
    /\ scheduled = <<>>
    /\ Captured(controller_device)

\* One EV_UINPUT event of ui_device read by capture_ff_events: with no
\* controller the loop sleeps and goes on to the next event.
FFRequest ==
    /\ ff.loop = "running"
    /\ \E code \in {"UI_FF_UPLOAD", "UI_FF_ERASE"}, id \in EffectIds, ok \in BOOLEAN :
        IF ~controller_device
        THEN /\ ff' = [ff EXCEPT !.code = code, !.id = id, !.done = FALSE,
                                 !.answered = FALSE]
             /\ ff_effect_id_set' = ff_effect_id_set
        ELSE IF code = "UI_FF_UPLOAD" THEN ff_upload(id, ok)
        ELSE ff_erase(id, ok)
    /\ UNCHANGED <<corevars, devvars, startup, opengamepadui, system_id, perf>>

\* do_rumble up to its sleep: the effect is uploaded with id -1.
DoRumbleUpload ==
    /\ controller_device /\ ff.rumble = -1
    /\ upload_effect(ff.effects, -1, TRUE) /= IOError
    /\ LET effect_id == upload_effect(ff.effects, -1, TRUE)
       IN  ff' = [ff EXCEPT !.rumble = effect_id, !.effects = @ \cup {effect_id}]
    /\ UNCHANGED <<corevars, devvars, startup, opengamepadui, system_id,
                   ff_effect_id_set, perf>>

\* do_rumble after its sleep: the effect is erased.
DoRumbleErase ==
    /\ ff.rumble /= -1
    /\ ff' = [ff EXCEPT !.rumble = -1, !.effects = @ \ {ff.rumble}]
    /\ UNCHANGED <<corevars, devvars, startup, opengamepadui, system_id,
                   ff_effect_id_set, perf>>

FFNext ==
    \/ FFRequest
    \/ DoRumbleUpload
    \/ DoRumbleErase

FFSpec == FFInit /\ [][FFNext]_vars

-----------------------------------------------------------------------------
(* capture_controller_events: what the controller delivers goes to         *)
(* ui_device.                                                              *)

EV_FF == 21
EV_UINPUT == 257
MaxReads == 2

\* The events the controller is made to deliver: SYN, key, axis, FF and
\* UINPUT events.
ControllerEvents ==
    {Ev(t, c, v, <<>>) : t \in {0, 1, 3, EV_FF, EV_UINPUT}, c \in {0, 304}, v \in {0, 1}}

\* The body of the read loop passing FF and UINPUT events on as well.
capture_controller_event_NoBlock(m, ev) == emit_event(m, ev)

\* The body of the read loop: block FF events, output the event.
capture_controller_event(m, ev) ==
    IF ev.type \in {EV_FF, EV_UINPUT} THEN m ELSE emit_event(m, ev)

\* The keyboards have left an action registered and one hot, or nothing.
ControllerInit ==
    /\ system_type = "OXP_GEN5"
    /\ button_map = DefaultConfig
    /\ event_queue \in {<<>>, <<EVENT_QAM>>}
    /\ last_button \in {None, EVENT_MODE}
    /\ shutdown = FALSE
    /\ controller_device = TRUE
    /\ task = [k \in Keyboards |-> IdleTask]
    /\ seed = [k |-> 0, ev |-> NoEvent]
    /\ out = <<>>
    /\ asserted = IF last_button = None THEN {} ELSE {last_button}
    /\ scheduled = <<>>
    /\ Captured(TRUE)

\* One event of the controller's read loop; out is ui_device from the start.
ControllerRead ==
    /\ adapter["controller"].device /\ adapter["controller"].loop = "running"
    /\ \E ev \in ControllerEvents :
        LET m == capture_controller_event(Machine(out), ev)
        IN  /\ Len(m.out) <= MaxReads
            /\ seed' = [k |-> 0, ev |-> ev]
            /\ out' = m.out
            /\ event_queue' = m.q
            /\ last_button' = m.lb
    /\ UNCHANGED <<system_type, button_map, shutdown, controller_device, task,
                   asserted, scheduled>>
    /\ UNCHANGED <<devvars, auxvars>>

ControllerNext ==
    \/ ControllerRead

ControllerSpec == ControllerInit /\ [][ControllerNext]_vars

-----------------------------------------------------------------------------
(* capture_power_events: the power button's events.                        *)

KEY_POWER == 116

\* What the power button is made to deliver: presses, releases and repeats
\* of KEY_POWER and of another key, and SYN events.
PowerEvents ==
    {Ev(t, c, v, <<>>) : t \in {0, 1}, c \in {115, KEY_POWER}, v \in {0, 1, 2}}

\* The body of the read loop.
capture_power_event(m, ev) ==
    IF ev.type = 1 /\ ev.code = KEY_POWER /\ ev.value = 0
    THEN [m EXCEPT !.out = Append(m.out, Call("handle_power_action"))]
    ELSE m

PowerInit == DeviceInit

\* The power button delivers an event. The task reads it when it is in its
\* read loop on the device; otherwise nothing in the daemon reads it.
PowerEvent ==
    /\ running /\ Len(out) < MaxReads
    /\ \E ev \in PowerEvents :
        LET m == IF adapter["power"].device /\ adapter["power"].loop = "running"
                 THEN capture_power_event(Machine(out), ev)
                 ELSE Machine(out)
        IN  /\ seed' = [k |-> 0, ev |-> ev]
            /\ out' = m.out
            /\ event_queue' = m.q
            /\ last_button' = m.lb
    /\ UNCHANGED <<system_type, button_map, shutdown, controller_device, task,
                   asserted, scheduled>>
    /\ UNCHANGED <<devvars, auxvars>>

PowerNext ==
    \/ DetectPower
    \/ PowerEvent

PowerSpec == PowerInit /\ [][PowerNext]_vars

-----------------------------------------------------------------------------
(* The keyboard tasks of the ROG Ally next to the controller's task: the   *)
(* read loop of the controller may fail while a keyboard task is in the    *)
(* sleep of do_rumble.                                                     *)

RumbleInit == Init /\ system_type = "ALY_GEN1" /\ controller_device

RumbleNext ==
    \/ \E k \in Keyboards : AllyReadEvent(k)
    \/ \E k \in Keyboards : RumbleDone(k)
    \/ \E k \in Keyboards : EmitNext(k)
    \/ \E k \in Keyboards : Redetect(k)
    \/ ReadFail("controller")

RumbleSpec == RumbleInit /\ [][RumbleNext]_vars

-----------------------------------------------------------------------------
(* exit()'s ungrab and restore_device of one device, as often as a         *)
(* shutdown signal comes for it.                                           *)

\* get_keyboard's grab succeeded and its shutil.move raised.
MoveFailed ==
    [Bound EXCEPT !.grabbed = TRUE, !.event = TRUE, !.loop = "raised",
                  !.err = "OSError"]

\* The devices are bound: not captured, captured and hidden, or captured
\* with the node still at its path.
RestoreInit ==
    /\ system_type = "OXP_GEN5"
    /\ button_map = DefaultConfig
    /\ event_queue = <<>>
    /\ last_button = None
    /\ shutdown = FALSE
    /\ controller_device = TRUE
    /\ task = [k \in Keyboards |-> IdleTask]
    /\ seed = [k |-> 0, ev |-> NoEvent]
    /\ out = <<>>
    /\ asserted = {}
    /\ scheduled = <<>>
    /\ running = TRUE
    /\ CAPTURE_CONTROLLER \in BOOLEAN /\ CAPTURE_KEYBOARD \in BOOLEAN
    /\ CAPTURE_POWER = TRUE
    /\ \E ad \in [Adapters -> {Bound, Hidden, MoveFailed, Unbound}] :
        /\ \A a \in Nodes : ad[a] /= Unbound /\ (ad[a] = Bound <=> ~Capture(a))
        /\ ad["power"] = Unbound
        /\ adapter = [a \in Adapters |-> WithDev(a, ad[a])]
    /\ exited = "no"
    /\ Started

\* if self.X_device: ungrab, devices.restore_device(self.X_event, self.X_path)
RestoreDevice(a) ==
    /\ LET s == exit_device([ad |-> adapter, raised |-> FALSE], a)
       IN  /\ adapter' = s.ad
           /\ exited' = IF s.raised THEN "raised" ELSE exited
    /\ running' = FALSE
    /\ UNCHANGED corevars
    /\ UNCHANGED <<CAPTURE_CONTROLLER, CAPTURE_KEYBOARD, CAPTURE_POWER>>
    /\ UNCHANGED auxvars

RestoreNext ==
    \/ \E a \in Nodes : RestoreDevice(a)

RestoreSpec == RestoreInit /\ [][RestoreNext]_vars

-----------------------------------------------------------------------------
(* restore_hidden as the two classes write it. A path is the sequence of   *)
(* its parts, absolute when it starts at the root.                         *)

Root == "/"
DEV_INPUT == <<Root, "dev", "input">>
HIDE_PATH == <<Root, "dev", "input", ".hidden">>

\* pathlib's  p / q : an absolute right operand replaces the left one.
PathJoin(p, q) == IF q /= <<>> /\ q[1] = Root THEN q ELSE p \o q

\* The node of adapter a carries the adapter's name as its file name.
NodePath(a, node) ==
    IF node = "hidden" THEN PathJoin(HIDE_PATH, <<a>>) ELSE PathJoin(DEV_INPUT, <<a>>)

\* Where the node of adapter a is once it was renamed to dst.
NodeAt(a, dst) ==
    IF dst = PathJoin(DEV_INPUT, <<a>>) THEN "path"
    ELSE IF dst = PathJoin(HIDE_PATH, <<a>>) THEN "hidden"
    ELSE "removed"

\* os.listdir(HIDE_PATH): the names of the hidden nodes.
listdir(ad) == {<<a>> : a \in {b \in Adapters : ad[b].node = "hidden"}}

\* HIDE_PATH.iterdir(): the hidden nodes, each as HIDE_PATH / name.
iterdir(ad) == {PathJoin(HIDE_PATH, n) : n \in listdir(ad)}

\* HandheldController.restore_hidden: shutil.move(HIDE_PATH / name,
\* "/dev/input/" + name) for every name listed.
HandheldController_restore_hidden(ad) ==
    [a \in Adapters |->
        IF <<a>> \in listdir(ad)
        THEN [ad[a] EXCEPT !.node = NodeAt(a, DEV_INPUT \o <<a>>)]
        ELSE ad[a]]

\* DeviceExplorer.restore_hidden: hidden_event.rename(Path("/dev/input/") /
\* hidden_event) for every path iterdir yields.
DeviceExplorer_restore_hidden(ad) ==
    [a \in Adapters |->
        IF NodePath(a, "hidden") \in iterdir(ad)
        THEN [ad[a] EXCEPT !.node = NodeAt(a, PathJoin(DEV_INPUT, NodePath(a, "hidden")))]
        ELSE ad[a]]

\* HandheldController.__init__ after the opengamepadui test.
ControllerRestoreHidden ==
    /\ startup = "checked"
    /\ adapter' = HandheldController_restore_hidden(adapter)
    /\ startup' = "restored"
    /\ UNCHANGED <<corevars, running, CAPTURE_CONTROLLER, CAPTURE_KEYBOARD,
                   CAPTURE_POWER, exited, opengamepadui, system_id, ffvars, perf>>

\* DeviceExplorer.__init__: mkdir of HIDE_PATH, then restore_hidden.
ExplorerRestoreHidden ==
    /\ startup = "init"
    /\ adapter' = DeviceExplorer_restore_hidden(adapter)
    /\ startup' = "restored"
    /\ UNCHANGED <<corevars, running, CAPTURE_CONTROLLER, CAPTURE_KEYBOARD,
                   CAPTURE_POWER, exited, opengamepadui, system_id, ffvars, perf>>

HiddenNext ==
    \/ InitCheck
    \/ ControllerRestoreHidden
    \/ ExplorerRestoreHidden
    \/ IdSystem

HiddenSpec == StartInit /\ [][HiddenNext]_vars

-----------------------------------------------------------------------------
(* toggle_performance: the next mode of mode_generator, two rumbles, a     *)
(* toast, ryzenadj.                                                        *)

MaxToggles == 10

\* Python values that are compared with ==: a str and a dict are never
\* equal, two values of one type are equal when their contents are.
PyStr(x) == [type |-> "str", val |-> x]
PyDict(d) == [type |-> "dict", val |-> d]
PyEq(x, y) == x.type = y.type /\ x.val = y.val

\* next(self.mode_generator) after n modes: mode_gen goes through the keys
\* of perf_modes again and again.
mode_gen(n) == perf_modes[(n % Len(perf_modes)) + 1]

\* The if/elif/else of toggle_performance on mode, which mode_gen yields
\* as the dict of the mode: the arguments -a, -b, -c, and mode_arg.
cmd_args(mode) ==
    IF PyEq(PyDict(mode), PyStr("Max Boost"))
        THEN <<22000, 23000, 19000, mode.mode>>
    ELSE IF PyEq(PyDict(mode), PyStr("Average Performance"))
        THEN <<18000, 19000, 17000, mode.mode>>
    ELSE <<14000, 16000, 12000, mode.mode>>

\* toggle_performance up to its first await.
TogglePerformance ==
    /\ perf.pc = "idle" /\ Len(perf.ryzenadj) < MaxToggles
    /\ LET mode == mode_gen(perf.mode_generator)
       IN  perf' = [perf EXCEPT !.mode_generator = (@ + 1) % Len(perf_modes),
                                !.pc = "do_rumble",
                                !.mode_name = mode.name,
                                !.cmd_args = cmd_args(mode),
                                !.thermal_mode = mode.thermal_mode]
    /\ UNCHANGED <<corevars, devvars, startup, opengamepadui, system_id, ffvars>>

\* do_rumble() and do_rumble(interval=300) up to the sleep; without a
\* controller do_rumble returns at once.
PerfRumble ==
    /\ perf.pc \in {"do_rumble", "do_rumble_300"} /\ ff.rumble = -1
    /\ IF ~controller_device
       THEN /\ perf' = [perf EXCEPT !.pc = IF @ = "do_rumble" THEN "sleep" ELSE "ryzenadj"]
            /\ ff' = ff
       ELSE /\ upload_effect(ff.effects, -1, TRUE) /= IOError
            /\ LET effect_id == upload_effect(ff.effects, -1, TRUE)
               IN  ff' = [ff EXCEPT !.rumble = effect_id, !.effects = @ \cup {effect_id}]
            /\ perf' = perf
    /\ UNCHANGED <<corevars, devvars, startup, opengamepadui, system_id,
                   ff_effect_id_set>>

\* do_rumble after its sleep: the effect is erased, do_rumble returns.
PerfRumbleDone ==
    /\ perf.pc \in {"do_rumble", "do_rumble_300"} /\ ff.rumble /= -1
    /\ ff' = [ff EXCEPT !.rumble = -1, !.effects = @ \ {ff.rumble}]
    /\ perf' = [perf EXCEPT !.pc = IF @ = "do_rumble" THEN "sleep" ELSE "ryzenadj"]
    /\ UNCHANGED <<corevars, devvars, startup, opengamepadui, system_id,
                   ff_effect_id_set>>

\* await asyncio.sleep(FF_DELAY) between the two rumbles.
PerfSleep ==
    /\ perf.pc = "sleep"
    /\ perf' = [perf EXCEPT !.pc = "do_rumble_300"]
    /\ UNCHANGED <<corevars, devvars, startup, opengamepadui, system_id, ffvars>>

\* add_toast, os.popen of ryzenadj and of the thermal policy.
PerfRyzenadj ==
    /\ perf.pc = "ryzenadj"
    /\ perf' = [perf EXCEPT !.pc = "idle",
                            !.ryzenadj = Append(@, [toast |-> perf.mode_name,
                                                    cmd_args |-> perf.cmd_args,
                                                    thermal_mode |-> perf.thermal_mode])]
    /\ UNCHANGED <<corevars, devvars, startup, opengamepadui, system_id, ffvars>>

PerfNext ==
    \/ TogglePerformance
    \/ PerfRumble
    \/ PerfRumbleDone
    \/ PerfSleep
    \/ PerfRyzenadj

PerfSpec == FFInit /\ [][PerfNext]_vars

-----------------------------------------------------------------------------
(* The claims.                                                             *)

\* C1: at no time are two different LogicalActions both asserted on the
\* virtual device (pressed with value 1 and not yet released with value 0),
\* whether emitted through last_button, at once by handle_key_down, or
\* directly as BTN_A/BTN_X.
C1_Exclusivity == Cardinality(asserted) <= 1

\* C2: every LogicalAction occurs at most once in event_queue, also when
\* two button slots are configured to the same action.
C2_QueueUnique ==
    \A i, j \in 1..Len(event_queue) : i /= j => event_queue[i] /= event_queue[j]

\* C2 witness: keyboard 2 reports the combination of slot 8 while the
\* action of slots 5 and 8 is already queued, and nothing is registered.
C2_Witness ==
    /\ system_type = "ALY_GEN1"
    /\ button_map[5] = button_map[8]
    /\ controller_device
    /\ seed = [k |-> 2, ev |-> Ev(1, 29, 1, <<29, 56, 111>>)]
    /\ event_queue = <<button_map[8]>>
    /\ last_button = None
    /\ out = <<>>

\* C3: no removal of an action from event_queue fails: removing an action
\* that is not queued raises nothing, for every event sequence and button map.
C3_RemovalNeverFails == \A k \in Keyboards : task[k].err /= "ValueError"

\* The actions pressed through last_button and not yet released: on the
\* handhelds that call handle_key_down, instant actions bypass the slot.
SlotAsserted ==
    IF system_type \in {"ALY_GEN1", "OXP_GEN5"}
    THEN asserted \ {EVENT_BTN_A, EVENT_BTN_X}
    ELSE asserted \cap QUEUED_EVENTS

\* C4: last_button is given a new action only when it is empty, and only
\* after the release of every action pressed through it before: no two
\* presses through the slot without a release between them.
C4_SlotNeverOverwritten ==
    [][(Truthy(last_button') /\ last_button' /= last_button)
        => (~Truthy(last_button) /\ SlotAsserted = {})]_vars

\* C5: for an action of n >= 1 (type, code) pairs, emit_now with value 1
\* emits the pairs in listed order with value 1, and emit_now with value 0
\* emits the same pairs in reverse order with value 0; the codes pressed
\* are the codes released.
C5_PressReleaseRoundTrip ==
    LET a == task[1].act
        ps == a.pairs
        n == Len(ps)
        ws == Writes(out)
    IN  (a /= None /\ ~IsStr(a) /\ n >= 1) =>
            /\ task[1].pc = "emit" =>
                    /\ Len(ws) = n
                    /\ \A i \in 1..n : ws[i] = Write(ps[i][1], ps[i][2], 1)
            /\ task[1].pc = "idle" =>
                    /\ Len(ws) = 2 * n
                    /\ \A i \in 1..n :
                        /\ ws[i] = Write(ps[i][1], ps[i][2], 1)
                        /\ ws[n + i] = Write(ps[n + 1 - i][1], ps[n + 1 - i][2], 0)
                    /\ {ws[i].code : i \in 1..n} = {ws[i].code : i \in (n + 1)..(2 * n)}

\* C5 witness: QAM pressed and released, BTN_MODE first in and last out.
C5_Witness ==
    /\ task[1].act = EVENT_QAM /\ task[1].pc = "idle"
    /\ Writes(out) = <<Write(1, 316, 1), Write(1, 304, 1), Write(1, 304, 0), Write(1, 316, 0)>>

\* The statements "if active_keys == down ... append(button) / elif ...
\* seed_event.code in ups ... this_button = button" of the handhelds that
\* resolve this_button, with the slot of button.
Rule(down, ups, slot) == [down |-> down, ups |-> ups, slot |-> slot]
RuleTable(st) ==
    CASE st = "ALY_GEN1" ->
            {Rule(<<184>>, {184, 185}, 1), Rule(<<148>>, {148}, 2),
             Rule(<<25, 125>>, {49, 125, 185}, 3), Rule(<<88>>, {88, 185}, 4),
             Rule(<<186>>, {186}, 5), Rule(<<68>>, {68, 185}, 6),
             Rule(<<29, 56, 111>>, {29, 56, 111}, 8),
             Rule(<<1, 29, 42>>, {1, 29, 42, 185}, 9),
             Rule(<<32, 125>>, {32, 125, 185}, 10),
             Rule(<<15, 125>>, {15, 125, 185}, 11),
             Rule(<<49, 125>>, {25, 125, 185}, 12)}
      [] st = "OXP_GEN5" ->
            {Rule(<<99, 125>>, {99, 125}, 1), Rule(<<3, 97>>, {3, 97}, 2),
             Rule(<<97, 100, 111>>, {100, 111}, 3),
             Rule(<<24, 97, 125>>, {24, 97, 125}, 4),
             Rule(<<32, 125>>, {32, 125}, 5), Rule(<<34, 125>>, {34, 125}, 6)}
      [] OTHER -> {}

\* The same for the handhelds that call handle_key_down and handle_key_up.
KeyRuleTable(st) ==
    CASE st = "AYA_GEN1" ->
            {Rule(<<125>>, {125}, 1), Rule(<<97, 100, 111>>, {97, 100, 111}, 2),
             Rule(<<1>>, {1}, 3), Rule(<<24, 97, 125>>, {24, 97, 125}, 4)}
      [] st = "AYA_GEN2" ->
            {Rule(<<40, 133>>, {32, 40, 125, 133}, 2),
             Rule(<<32, 125>>, {32, 40, 125, 133}, 2),
             Rule(<<96, 105, 133>>, {88, 96, 97, 105, 125, 133}, 5),
             Rule(<<88, 97, 125>>, {88, 96, 97, 105, 125, 133}, 5)}
      [] st = "AYA_GEN7" ->
            {Rule(<<29, 125, 185>>, {29, 125, 185}, 1), Rule(<<32, 125>>, {32, 125}, 2),
             Rule(<<29, 125, 186>>, {29, 125, 186}, 4),
             Rule(<<29, 125, 187>>, {29, 125, 187}, 5)}
      [] st = "AYN_GEN3" ->
            {Rule(<<111>>, {111}, 1), Rule(<<20, 29, 42, 56>>, {20, 29, 42, 56}, 2)}
      [] OTHER -> {}

\* The combinations EventEmitter.process_event resolves to a side effect.
SideEffectKeys ==
    {<<186, 311>>, <<186, 310>>, <<148, 311>>, <<148, 310>>, <<148, 310, 311>>,
     <<186, 310, 311>>, <<186, 307>>}
IsSideEffect(ev) ==
    /\ system_type = "ALY_GEN1"
    /\ ev.active_keys \in SideEffectKeys /\ ev.code = ev.active_keys[1] /\ ev.value = 1

\* This step is keyboard task k reading an event and processing it up to
\* its first pause: the event is seed'.ev.
ReadStep(k) ==
    /\ seed'.k = k
    /\ task[k].pc = "idle"
    /\ \A j \in Keyboards \ {k} : task'[j] = task[j]

\* The step of task k emits the release of x last, or pauses within it.
ReleaseOf(k, x) ==
    LET ws == Writes(out' \o task'[k].rest)
        n == Len(x.pairs)
    IN  Len(ws) >= n /\ SubSeq(ws, Len(ws) - n + 1, Len(ws)) = EventList(x, 0)
SlotEmptied(k) == last_button' = None \/ (task'[k].pc = "emit" /\ task'[k].clear)

\* A down event of a key of rule r's combination, read with the combination
\* held, registers the rule's action and emits nothing.
LifecycleDown(k, r) ==
    LET x == button_map[r.slot]
    IN  (/\ event_queue = <<>> /\ ~Truthy(last_button)
         /\ seed'.ev.active_keys = r.down /\ seed'.ev.value = 1
         /\ seed'.ev.code \in Elems(r.down))
        => (event_queue' = <<x>> /\ Writes(out') = <<>> /\ ~Truthy(last_button'))

\* The event that follows, a release code of r with nothing held, promotes
\* the action and emits its press.
LifecycleUp(k, r) ==
    LET x == button_map[r.slot]
        ws == Writes(out' \o task'[k].rest)
    IN  (/\ event_queue = <<x>> /\ ~Truthy(last_button)
         /\ seed'.ev.active_keys = <<>> /\ seed'.ev.code \in r.ups /\ seed'.ev.value = 0)
        => (event_queue' = <<>> /\ last_button' = x /\ ws = EventList(x, 1))

Button8Down(ev) == ev.active_keys = <<29, 56, 111>> /\ ev.value = 1
HandlesButton8 ==
    \/ ReadStep(2) /\ Button8Down(seed'.ev)
    \/ task[2].pc = "rumble" /\ task'[2].pc /= "rumble" /\ Button8Down(task[2].ev)

\* C7: when the action of slot 5 is hot in last_button and keyboard 2
\* reports the combination of slot 8, mapped to the same action, going
\* down, nothing is emitted (no second press, no release) and the action
\* stays in the slot.
C7_NothingExtra ==
    [][(/\ system_type = "ALY_GEN1" /\ button_map[8] = button_map[5]
        /\ last_button = button_map[5]
        /\ HandlesButton8)
       => (Writes(out' \o task'[2].rest) = <<>> /\ last_button' = last_button)]_vars

\* The event fires the elif of a rule whose action is registered.
FiresUp(ev) ==
    \E r \in RuleTable(system_type) :
        ev.code \in r.ups /\ ev.value = 0 /\ InList(button_map[r.slot], event_queue)

\* The step of task k emits the press of x last, or pauses within it.
PressOf(k, x) ==
    LET ws == Writes(out' \o task'[k].rest)
        n == Len(x.pairs)
    IN  Len(ws) >= n /\ SubSeq(ws, Len(ws) - n + 1, Len(ws)) = EventList(x, 1)

\* C8: an event with no key held that fires no rule's elif, read while
\* event_queue is not empty, resolves event_queue[0]: with the slot empty
\* that action leaves the queue, enters the slot and is pressed; with the
\* slot occupied nothing is released.
C8_FallbackOldest ==
    [][\A k \in Keyboards :
        (/\ ReadStep(k) /\ system_type \in {"ALY_GEN1", "OXP_GEN5"}
         /\ seed'.ev.active_keys = <<>> /\ event_queue /= <<>>
         /\ ~FiresUp(seed'.ev))
        => IF Truthy(last_button)
           THEN last_button' = last_button /\ event_queue' = event_queue
           ELSE /\ last_button' = event_queue[1]
                /\ event_queue' = Tail(event_queue)
                /\ ~IsStr(event_queue[1]) => PressOf(k, event_queue[1])]_vars

\* C8 witness: on the OXP handheld two actions were registered, and the
\* SYN_REPORT read last promoted and pressed the older one.
C8_Witness ==
    /\ system_type = "OXP_GEN5"
    /\ seed = [k |-> 1, ev |-> NoEvent]
    /\ last_button = button_map[1] /\ event_queue = <<button_map[5]>>
    /\ Writes(out) = EventList(button_map[1], 1)

\* C9: while the action of a rule is in event_queue, an event with the
\* rule's combination and value 2 or value 1 leaves event_queue as it is.
C9_NoSecondRegistration ==
    [][\A k \in Keyboards :
        \A r \in RuleTable(system_type) \cup KeyRuleTable(system_type) :
            (/\ ReadStep(k)
             /\ seed'.ev.active_keys = r.down /\ seed'.ev.value \in {1, 2}
             /\ InList(button_map[r.slot], event_queue))
            => event_queue' = event_queue]_vars

\* C9 witness: QAM is registered on an AYANEO handheld and the repeat of its
\* combination was read last.
C9_Witness ==
    /\ system_type = "AYA_GEN1"
    /\ seed = [k |-> 1, ev |-> Ev(1, 97, 2, <<97, 100, 111>>)]
    /\ event_queue = <<button_map[2]>> /\ out = <<>>

\* C10: an event of KEY_VOLUMEUP or KEY_VOLUMEDOWN is written to ui_device
\* as it is, once and with no pause, nothing else is emitted, and
\* event_queue and last_button stay as they are.
C10_VolumePassThrough ==
    [][\A k \in Keyboards :
        (ReadStep(k) /\ seed'.ev.code \in {KEY_VOLUMEDOWN, KEY_VOLUMEUP})
        => (/\ out' = <<Write(seed'.ev.type, seed'.ev.code, seed'.ev.value)>>
            /\ event_queue' = event_queue /\ last_button' = last_button)]_vars

\* The handler calls among what was done.
Calls(items) == SelectSeq(items, LAMBDA x : x.kind = "call")

\* The side effect EventEmitter.process_event resolves a combination to.
SideEffectName(keys) ==
    CASE keys = <<186, 311>> -> "Increase screen brightness"
      [] keys = <<186, 310>> -> "Decrease screen brightness"
      [] keys = <<148, 311>> -> "Increase led brightness"
      [] keys = <<148, 310>> -> "Decrease led brightness"
      [] keys = <<148, 310, 311>> -> "Switch led mode"
      [] keys = <<186, 310, 311>> -> "Toggle Performance"
      [] keys = <<186, 307>> -> "Open Keyboard"
      [] OTHER -> ""

\* C11: the press event of a side-effect combination runs the handler of
\* that side effect exactly once and writes no event to ui_device; no other
\* step of processing an event calls a handler unless it promotes a named
\* action, so over the press and release of the combination the handler
\* runs once.
C11_SideEffectOnce ==
    [][\A k \in Keyboards :
        (ReadStep(k) /\ IsSideEffect(seed'.ev))
        => (/\ Calls(out' \o task'[k].rest)
                  = <<Call(SideEffectName(seed'.ev.active_keys))>>
            /\ Writes(out' \o task'[k].rest) = <<>>)]_vars

\* The action the event resolves: event_queue[0] for an event read with no
\* key held that fires no rule's elif (this_button profiles), the action
\* of the rule whose elif it fires (handle_key_up profiles).
Resolves(ev, x) ==
    \/ /\ system_type \in {"ALY_GEN1", "OXP_GEN5"}
       /\ ev.active_keys = <<>> /\ event_queue /= <<>> /\ ~FiresUp(ev)
       /\ x = event_queue[1]
    \/ \E r \in KeyRuleTable(system_type) :
        /\ ev.active_keys = <<>> /\ ev.code \in r.ups /\ ev.value = 0
        /\ x = button_map[r.slot] /\ InList(x, event_queue)

\* C12: an event that resolves action x while last_button holds another
\* action y emits the release of y and then the press of x, takes x out of
\* event_queue and leaves x in last_button.
C12_PromoteOverOccupant ==
    [][\A k \in Keyboards : \A x \in Elems(event_queue) :
        (/\ ReadStep(k) /\ Resolves(seed'.ev, x)
         /\ Truthy(last_button) /\ last_button /= x
         /\ ~IsStr(x) /\ ~IsStr(last_button))
        => (/\ ~InList(x, event_queue')
            /\ Writes(out' \o task'[k].rest)
                  = EventList(last_button, 0) \o EventList(x, 1)
            /\ (last_button' = x \/ task'[k].pc = "emit"))]_vars

\* What process_event writes before it comes to this_button: the volume
\* key passed through (oxp_gen5), BTN_A or BTN_X (EventEmitter).
DirectWrites(ev) ==
    LET m == Machine(<<>>)
    IN  IF system_type = "OXP_GEN5" THEN Writes(PassVolume(m, ev).out)
        ELSE Writes(Direct(Direct(m, ev, 187, EVENT_BTN_A), ev, 188, EVENT_BTN_X).out)

\* this_button is None at the end of the rules: the event is not read with
\* no key held over a non-empty event_queue and is no side-effect
\* combination.
ResolvesNone(ev) ==
    /\ ~(ev.active_keys = <<>> /\ event_queue /= <<>>)
    /\ ~IsSideEffect(ev)

\* What the event may register on its way: nothing, or the action of the
\* rule whose combination it is read with.
Registered(ev) ==
    {event_queue} \cup
    {Append(event_queue, button_map[r.slot]) : r \in
        {r \in RuleTable(system_type) : r.down = ev.active_keys /\ ev.value = 1}}

\* The demotion of y by task k in this step.
Demoted(k, y, before) ==
    /\ Writes(out' \o task'[k].rest)
          = before \o (IF IsStr(y) THEN <<>> ELSE EventList(y, 0))
    /\ Calls(out' \o task'[k].rest) = <<>>
    /\ SlotEmptied(k)

C14_ReleaseLeavesQueue ==
    [][\A k \in Keyboards :
        \A r \in RuleTable(system_type) \cup KeyRuleTable(system_type) :
            (/\ ReadStep(k) /\ ~Truthy(last_button)
             /\ InList(button_map[r.slot], event_queue)
             /\ seed'.ev.active_keys = <<>> /\ seed'.ev.code \in r.ups
             /\ seed'.ev.value = 0)
            => ~InList(button_map[r.slot], event_queue')]_vars

\* C15: once exit() has run no device is grabbed by the daemon and no
\* device node is in HIDE_PATH.
C15_ReleasedAtExit ==
    exited /= "no"
    => \A a \in Adapters : ~adapter[a].grabbed /\ adapter[a].node /= "hidden"

\* C16: when the read loop of a grabbed controller or keyboard raises, the
\* adapter is left unbound (handle, event name and path cleared), its node
\* is back at its path, and its task is still running.
C16_ReadFailureRecovery ==
    [][\A a \in Nodes :
        (/\ adapter[a].device /\ adapter[a].grabbed /\ adapter[a].loop = "running"
         /\ adapter'[a] /= adapter[a] /\ exited' = exited)
        => (/\ ~adapter'[a].device /\ ~adapter'[a].event /\ ~adapter'[a].path
            /\ adapter'[a].loop = "running"
            /\ adapter'[a].node = "path")]_vars

\* C17: an adapter whose grab() or whose shutil.move failed in detection
\* holds no handle and its task is still running.
C17_GrabFailureRecovered ==
    \A a \in Nodes :
        adapter[a].err \in {"IOError", "OSError"}
        => (~adapter[a].device /\ adapter[a].loop = "running")

\* C18: no keyboard task is suspended between its first and its last access
\* to event_queue and last_button for an event: none waits in do_rumble
\* with the rules after BUTTON 8 and the promotion still to run, and none
\* waits in emit_events with last_button = None still to run.
C18_ResolutionAtomic ==
    \A k \in Keyboards :
        /\ task[k].pc /= "rumble"
        /\ ~(task[k].pc = "emit" /\ task[k].clear)

\* C19: a keyboard task reads its next event only when the processing of
\* the one before has ended: an event is read by a task that is idle with
\* nothing left to emit, and a task paused in do_rumble or in emit_events
\* goes on with the event it paused in, emitting what was left of its
\* emission in order.
C19_OneEventAtATime ==
    [][\A k \in Keyboards :
        /\ (seed' /= seed /\ seed'.k = k)
           => (task[k].pc = "idle" /\ task[k].rest = <<>>)
        /\ (task[k].pc \in {"rumble", "emit"} /\ task'[k] /= task[k])
           => (/\ seed' = seed
               /\ task[k].pc = "emit" => out' \o task'[k].rest = task[k].rest)]_vars

\* C19 witness: keyboard 1 read the release of key 148, which promoted QAM
\* and paused after the first event of its press; the step taken last
\* emitted the second event, and the task is idle again.
C19_Witness ==
    /\ system_type = "ALY_GEN1"
    /\ seed = [k |-> 1, ev |-> Ev(1, 148, 0, <<>>)]
    /\ task[1].pc = "idle" /\ last_button = button_map[2]
    /\ out = <<Write(1, 304, 1)>>

\* C20: processing one raw event makes event_queue longer by one element
\* at most, and when it does the queue is the old one with the action of
\* the one rule whose combination the event was read with appended; what
\* follows a pause in do_rumble for the same event registers nothing more.
\* No two rules of a handheld for different buttons have the same
\* combination.
C20_OneRegistrationPerEvent ==
    [][\A k \in Keyboards :
        /\ ReadStep(k)
           => (/\ Len(event_queue') <= Len(event_queue) + 1
               /\ Len(event_queue') > Len(event_queue)
                  => \E r \in RuleTable(system_type) \cup KeyRuleTable(system_type) :
                        /\ r.down = seed'.ev.active_keys
                        /\ event_queue' = Append(event_queue, button_map[r.slot]))
        /\ (task[k].pc \in {"rumble", "emit"} /\ task'[k] /= task[k])
           => Len(event_queue') <= Len(event_queue)
        /\ \A r1, r2 \in RuleTable(system_type) \cup KeyRuleTable(system_type) :
            r1.down = r2.down => r1.slot = r2.slot]_vars

\* C20 witness: on the OXP handheld QAM was registered, and the down event
\* of the combination of button5 read last appended MODE and nothing else.
C20_Witness ==
    /\ system_type = "OXP_GEN5"
    /\ seed = [k |-> 1, ev |-> Ev(1, 32, 1, <<32, 125>>)]
    /\ event_queue = <<button_map[2], button_map[5]>>
    /\ out = <<>> /\ last_button = None

\* C21: with an opengamepadui process running or a product name id_system
\* does not know, __init__ never comes to its capture tasks: no device is
\* bound or grabbed, no node is given an event name and hidden, and no
\* adapter task exists, in any state of the run.
C21_FatalBeforeAcquisition ==
    (opengamepadui \/ ~Supported(system_id))
    => (/\ startup \in {"init", "checked", "restored", "exited"}
        /\ \A a \in Adapters :
            /\ ~adapter[a].device /\ ~adapter[a].grabbed /\ ~adapter[a].event
            /\ adapter[a].loop = "unstarted")

\* C21 witness: no opengamepadui, a product name that is not listed: the
\* daemon restored what was hidden and left in id_system.
C21_Witness ==
    /\ ~opengamepadui /\ system_id = "Jupiter"
    /\ startup = "exited"

\* C22: the FF task is never ended by a request, and the request read last
\* was answered: end_upload or end_erase was called, with retval 0 when the
\* controller carried the request out and -1 when it did not.
C22_AnsweredInProtocol ==
    /\ ff.loop = "running"
    /\ ff.code /= "" => (ff.answered /\ ff.retval = (IF ff.done THEN 0 ELSE -1))

\* C23: an event read from the controller whose type is neither EV_FF nor
\* EV_UINPUT is written to ui_device once, as it is, after everything
\* written before; an EV_FF or EV_UINPUT event writes nothing; event_queue
\* and last_button are as before.
C23_ControllerPassThrough ==
    [][(seed' /= seed \/ out' /= out)
       => (/\ out' = IF seed'.ev.type \in {EV_FF, EV_UINPUT} THEN out
                     ELSE Append(out, Write(seed'.ev.type, seed'.ev.code, seed'.ev.value))
           /\ event_queue' = event_queue /\ last_button' = last_button)]_vars

\* C23 witness: an axis event and a key event were passed on in that order,
\* and the FF event read last was not.
C23_Witness ==
    /\ out = <<Write(3, 0, 1), Write(1, 304, 1)>>
    /\ seed.ev = Ev(EV_FF, 0, 1, <<>>)
    /\ event_queue = <<EVENT_QAM>> /\ last_button = EVENT_MODE

\* C24: with the power button bound, each event it delivers with type
\* EV_KEY, code 116 and value 0 invokes the power action once, any other
\* event invokes nothing, and event_queue and last_button are as before.
C24_PowerActionPerRelease ==
    [][(adapter["power"].device /\ seed' /= seed)
       => (/\ out' = IF seed'.ev.type = 1 /\ seed'.ev.code = KEY_POWER
                        /\ seed'.ev.value = 0
                     THEN Append(out, Call("handle_power_action"))
                     ELSE out
           /\ event_queue' = event_queue /\ last_button' = last_button)]_vars

\* C25: while the daemon is running, an adapter that has no device bound
\* (missing at startup, or dropped after a read failure) has its task in
\* the capture loop, where detection is retried after every DETECT_DELAY;
\* the power adapter included.
C25_UnboundKeepsDetecting ==
    (running /\ exited = "no")
    => \A a \in Adapters : ~adapter[a].device => adapter[a].loop = "running"

\* C26: once a shutdown signal has run exit(), running is false, no adapter
\* task is left in its loop, the event loop has been stopped (exit() ran to
\* its end), and from then on no adapter binds or grabs a device.
C26_ShutdownTerminates ==
    [][exited' /= "no"
       => (/\ ~running'
           /\ exited' = "done"
           /\ \A a \in Adapters : adapter'[a].loop /= "running"
           /\ exited /= "no"
              => \A a \in Adapters :
                    /\ adapter'[a].device => adapter[a].device
                    /\ adapter'[a].grabbed => adapter[a].grabbed)]_vars

\* C27: emitting an action of n code pairs pauses n-1 times, once between
\* each two consecutive events and not after the last one (none at all for
\* one pair); so does the release that follows the press.
C27_EmissionPacing ==
    LET a == task[1].act
        n == Len(a.pairs)
        m == 2 * n - 1
    IN  (a /= None /\ ~IsStr(a) /\ n >= 1) =>
            /\ Len(out) = IF task[1].pc = "emit" THEN m ELSE 2 * m
            /\ \A i \in 1..Len(out) :
                (out[i] = Sleep) <=> (((i - 1) % m) % 2 = 1)
            /\ Len(SelectSeq(out, LAMBDA x : x = Sleep))
                    = IF task[1].pc = "emit" THEN n - 1 ELSE 2 * (n - 1)

\* C27 witness: three pairs pressed, the first and the last alike, with
\* two pauses in between.
C27_Witness ==
    /\ task[1].pc = "emit"
    /\ Len(task[1].act.pairs) = 3
    /\ out = <<Write(1, 316, 1), Sleep, Write(1, 304, 1), Sleep, Write(1, 316, 1)>>

\* C28: emit_now with an action that is a name without a handler (a
\* power-mode name such as "Suspend" included) calls no handler, writes no
\* event and does not pause, and event_queue and last_button are as before,
\* for value 1 and for value 0.
C28_UnknownNameNoOp ==
    [][(task' /= task /\ task'[1].act /= None /\ IsStr(task'[1].act)
        /\ task'[1].act.str \notin HANDLERS)
       => (/\ \A i \in 1..Len(out') : out'[i].kind = "log"
           /\ event_queue' = event_queue /\ last_button' = last_button)]_vars

\* C28 witness: "Suspend" went through emit_now with value 1 and then with
\* value 0, and only the log has it.
C28_Witness ==
    /\ task[1].act = Named("Suspend") /\ task[1].pc = "idle"
    /\ out = <<Log("Suspend")>>

\* C29: emit_now with an empty action list writes no event, calls no
\* handler and does not pause, whatever the value, and event_queue and
\* last_button are as before.
C29_EmptyActionNoOp ==
    [][(task' /= task /\ task'[1].act = Pairs(<<>>))
       => (/\ Writes(out') = <<>> /\ Calls(out') = <<>>
           /\ \A i \in 1..Len(out') : out'[i] /= Sleep /\ out'[i] /= Rumble
           /\ event_queue' = event_queue /\ last_button' = last_button)]_vars

\* C29 witness: the empty list went through emit_now with value 1 and with
\* value 0, and was logged as malformed both times.
C29_Witness ==
    /\ task[1].act = Pairs(<<>>) /\ task[1].pc = "idle"
    /\ out = <<Log("malformed"), Log("malformed")>>

\* C30: with last_button empty, an event read with keys held that are the
\* combination of no rule (nor a side-effect combination, nor a key that is
\* written through as a button), and that is no volume key, writes nothing, calls no handler, raises nothing, and
\* leaves event_queue and last_button as they are.
C30_UnmatchedIgnored ==
    [][\A k \in Keyboards :
        (/\ ReadStep(k) /\ ~Truthy(last_button)
         /\ seed'.ev.active_keys /= <<>>
         /\ \A r \in RuleTable(system_type) \cup KeyRuleTable(system_type) :
                r.down /= seed'.ev.active_keys
         /\ seed'.ev.active_keys \notin SideEffectKeys \cup {<<187>>, <<188>>}
         /\ seed'.ev.code \notin {KEY_VOLUMEDOWN, KEY_VOLUMEUP})
        => (/\ out' = <<>> /\ task'[k] = IdleTask
            /\ event_queue' = event_queue /\ last_button' = last_button)]_vars

\* C30 witness: on the OXP handheld QAM is registered, the slot is empty,
\* and the press of a key no rule names was read last.
C30_Witness ==
    /\ system_type = "OXP_GEN5"
    /\ seed = [k |-> 1, ev |-> Ev(1, 30, 1, <<30>>)]
    /\ event_queue = <<button_map[2]>> /\ last_button = None
    /\ out = <<>> /\ task[1] = IdleTask

\* C31: with the two keyboard tasks interleaved at the pauses of emit_now,
\* whenever last_button is empty and no task is within an emission or a
\* rumble, no action pressed through the slot is still asserted on
\* ui_device.
C31_NoStuckButton ==
    (/\ system_type = "ALY_GEN1"
     /\ ~Truthy(last_button)
     /\ \A k \in Keyboards : task[k].pc = "idle")
    => SlotAsserted = {}

\* C32: on a handheld that resolves this_button, with events arriving for
\* ever, an action in last_button is released later on and last_button
\* becomes empty.
C32_PressEventuallyReleased ==
    Truthy(last_button) ~> ~Truthy(last_button)

\* C33: on the handhelds that call handle_key_down and handle_key_up,
\* between two events last_button is empty and no queued action is asserted
\* on ui_device: the event that promoted an action and wrote its press
\* wrote its release after it.
C33_SlotEmptyBetweenEvents ==
    system_type \in {"AYA_GEN1", "AYA_GEN2", "AYA_GEN7", "AYN_GEN3"}
    => (/\ ~Truthy(last_button)
        /\ SlotAsserted = {}
        /\ \A x \in QUEUED_EVENTS : ~IsStr(x) =>
            LET ws == Writes(out)
                n == Len(x.pairs)
            IN  \A i \in 1..(Len(ws) - n + 1) :
                    SubSeq(ws, i, i + n - 1) = EventList(x, 1)
                    => \E j \in (i + n)..(Len(ws) - n + 1) :
                            SubSeq(ws, j, j + n - 1) = EventList(x, 0))

\* C33 witness: on AYA_GEN1 the release of key 97 promoted the registered
\* QAM, wrote its press and then its release, and last_button is empty.
C33_Witness ==
    /\ system_type = "AYA_GEN1" /\ button_map[2] = EVENT_QAM
    /\ seed = [k |-> 1, ev |-> Ev(1, 97, 0, <<>>)]
    /\ Writes(out) = EventList(EVENT_QAM, 1) \o EventList(EVENT_QAM, 0)
    /\ last_button = None /\ event_queue = <<>>

\* The events es are among ws, one after the other.
WrittenIn(ws, es) ==
    \E i \in 1..(Len(ws) - Len(es) + 1) : SubSeq(ws, i, i + Len(es) - 1) = es

C35_RumbleSafe == \A k \in Keyboards : task[k].err /= "AttributeError"

\* C36: restore_device for a device whose node is not in HIDE_PATH (it was
\* moved back before, or was never hidden) leaves the node where it is and
\* raises nothing: restoring twice is restoring once.
C36_RestoreIdempotent ==
    [][/\ \A a \in Nodes :
            adapter[a].node /= "hidden" => adapter'[a].node = adapter[a].node
       /\ (\A a \in Nodes : adapter[a].node /= "hidden") => exited' /= "raised"]_vars

\* C37: once restore_hidden has returned, whichever class ran it, no node
\* is left in the hide directory: every node is at its path in /dev/input.
C37_RestoreHiddenEmpties ==
    startup = "restored" => \A a \in Adapters : adapter[a].node = "path"

\* C38: after every step of the force-feedback adapter ff_effect_id_set is
\* the set of ids capture_ff_events uploaded to the controller and has not
\* erased there since; a request answered with -1 (the upload or the erase
\* failed) leaves the set as it was; an upload whose effect id the set does
\* not hold goes to the controller with id -1.
C38_EffectIdBookkeeping ==
    [][/\ ff_effect_id_set' = ff'.uploaded
       /\ (ff'.rumble = ff.rumble /\ ff'.answered /\ ff'.retval = -1)
            => ff_effect_id_set' = ff_effect_id_set
       /\ (ff'.rumble = ff.rumble /\ ff'.answered /\ ff'.code = "UI_FF_UPLOAD"
           /\ ff'.id \notin ff_effect_id_set)
            => ff'.sent = -1]_vars

\* C38 witness: two effects were uploaded, the first was erased, an upload
\* of the erased id was given id -1 and failed on a controller that is full,
\* and the set holds what is left.
C38_Witness ==
    /\ ff_effect_id_set = {1, 2} /\ ff.uploaded = {1, 2}
    /\ ff.effects = {0, 1, 2} /\ ff.rumble = 0
    /\ ff.code = "UI_FF_UPLOAD" /\ ff.id = 0 /\ ff.sent = -1
    /\ ff.answered /\ ff.retval = -1

\* C39: for the controller and the two keyboards, a node is in the hide
\* directory only while the handle is bound and grabbed and the capture flag
\* is set; an adapter without a handle has no event name and no path; and a
\* handle is of a device whose name and physical address are the profile's.
C39_AdapterConsistent ==
    \A a \in Nodes :
        /\ adapter[a].node = "hidden"
            => (adapter[a].device /\ adapter[a].grabbed /\ Capture(a))
        /\ ~adapter[a].device => (~adapter[a].event /\ ~adapter[a].path)
        /\ adapter[a].device
            => (/\ adapter[a].dev.name = Profile(a).name
                /\ adapter[a].dev.phys = Profile(a).phys)

\* C40: the k-th call of toggle_performance announces and applies the k-th
\* mode of the cycle Max Boost, Average Performance, Power Saving, and the
\* power limits it passes to ryzenadj are those of that mode.
C40_PerformanceCycle ==
    \A k \in 1..Len(perf.ryzenadj) :
        LET name == <<"Max Boost", "Average Performance", "Power Saving">>[((k - 1) % 3) + 1]
            limits == CASE name = "Max Boost" -> <<22000, 23000, 19000>>
                        [] name = "Average Performance" -> <<18000, 19000, 17000>>
                        [] name = "Power Saving" -> <<14000, 16000, 12000>>
        IN  /\ perf.ryzenadj[k].toast = name
            /\ SubSeq(perf.ryzenadj[k].cmd_args, 1, 3) = limits

====
